---- MODULE Spec2Model ----
(***************************************************************************)
(* A model of the protobuf MCP server: path resolution (config package),   *)
(* compilation (compiler package), the project manager and the three tools *)
(* activate_project, list_services and get_schema (tools package).         *)
(*                                                                         *)
(* Go strings are sequences of one-character strings, so that the string   *)
(* operations of the source (glob matching, Base, Join, Rel, Index of      *)
(* "**", byte-wise comparison) are computed and not assumed.               *)
(***************************************************************************)
EXTENDS Integers, Sequences, FiniteSets, TLC

VARIABLES
    current,      \* projectManager.project: the current *ProtobufProject, or NoProject
    lastOp,       \* the tool whose handler ran last ("none" before the first call)
    lastPath,     \* the project_path argument of that call (activate_project)
    lastArgs,     \* the arguments of that call (get_schema)
    lastResp,     \* the *mcp.CallToolResult that call returned
    succeeded,    \* history: the project roots activated successfully so far
    latest,       \* history: the root of the last successful activation
    failed,       \* history: some activate_project call has failed
    rFiles,       \* resolver runs: the regular files on disk
    rConfig,      \* resolver runs: the project configuration handed to the resolver
    rOut,         \* resolver runs: what the resolver returned
    mgr,          \* concurrent runs: which project manager the tools were built with
    pm,           \* concurrent runs: the manager's project field, a heap address or 0
    heap,         \* concurrent runs: the ProtobufProject objects allocated so far
    act,          \* concurrent runs: the activate_project handler in flight
    qry,          \* concurrent runs: the query handler in flight
    configs,      \* init runs: the configuration file each directory holds
    iOut,         \* init runs: what the last init returned
    psm,          \* the project state manager: the state file and what the last call returned
    rpc,          \* the stdio server: its input, its output and where Run stands
    cwd           \* the working directory of the process

vars == <<current, lastOp, lastPath, lastArgs, lastResp, succeeded, latest, failed,
          rFiles, rConfig, rOut, mgr, pm, heap, act, qry, configs, iOut, psm, rpc, cwd>>

serverVars == <<current, lastOp, lastPath, lastArgs, lastResp, succeeded, latest, failed>>
resolverVars == <<rFiles, rConfig, rOut>>
concVars == <<mgr, pm, heap, act, qry>>
initVars == <<configs, iOut>>
hostVars == <<psm, rpc, cwd>>

----------------------------------------------------------------------------
(* Strings *)

\* The characters the model's strings are made of, in ascending byte order.
Alphabet ==
    <<"*", ".", "/", "?", "[", "]", "_",
      "a", "b", "c", "d", "e", "g", "i", "m", "n", "o", "p", "r", "s", "t", "u",
      "x", "y">>

Ord(c) == CHOOSE i \in 1..Len(Alphabet) : Alphabet[i] = c

\* Go's string comparison a < b: byte-wise lexicographic.
RECURSIVE StrLessFrom(_, _, _)
StrLessFrom(a, b, i) ==
    IF i > Len(b) THEN FALSE
    ELSE IF i > Len(a) THEN TRUE
    ELSE IF a[i] = b[i] THEN StrLessFrom(a, b, i + 1)
    ELSE Ord(a[i]) < Ord(b[i])

StrLess(a, b) == StrLessFrom(a, b, 1)

HasPrefix(s, prefix) ==
    /\ Len(prefix) <= Len(s)
    /\ SubSeq(s, 1, Len(prefix)) = prefix

HasSuffix(s, suffix) ==
    /\ Len(suffix) <= Len(s)
    /\ SubSeq(s, Len(s) - Len(suffix) + 1, Len(s)) = suffix

TrimSuffix(s, suffix) ==
    IF HasSuffix(s, suffix) THEN SubSeq(s, 1, Len(s) - Len(suffix)) ELSE s

TrimPrefix(s, prefix) ==
    IF HasPrefix(s, prefix) THEN SubSeq(s, Len(prefix) + 1, Len(s)) ELSE s

\* strings.Index(s, sub): the 0-based index of the first occurrence, or -1.
Index(s, sub) ==
    LET hits == {i \in 0..(Len(s) - Len(sub)) : SubSeq(s, i + 1, i + Len(sub)) = sub}
    IN IF hits = {} THEN -1 ELSE CHOOSE i \in hits : \A k \in hits : i <= k

Contains(s, sub) == Index(s, sub) >= 0

Slash == <<"/">>
StarStar == <<"*", "*">>
DotDot == <<".", ".">>
Dot == <<".">>

----------------------------------------------------------------------------
(* Paths (path/filepath) *)

IsAbs(s) == Len(s) > 0 /\ s[1] = "/"

\* The non-empty segments of s between separators.
RECURSIVE SegsFrom(_, _, _)
SegsFrom(s, i, cur) ==
    IF i > Len(s) THEN (IF cur = <<>> THEN <<>> ELSE <<cur>>)
    ELSE IF s[i] = "/"
         THEN (IF cur = <<>> THEN SegsFrom(s, i + 1, <<>>)
               ELSE <<cur>> \o SegsFrom(s, i + 1, <<>>))
         ELSE SegsFrom(s, i + 1, Append(cur, s[i]))

Segs(s) == SegsFrom(s, 1, <<>>)

\* Lexical processing of "." and ".." segments, as filepath.Clean does.
RECURSIVE CleanSegs(_, _, _)
CleanSegs(segs, acc, abs) ==
    IF segs = <<>> THEN acc
    ELSE LET h == Head(segs)
             t == Tail(segs)
         IN IF h = Dot THEN CleanSegs(t, acc, abs)
            ELSE IF h = DotDot
                 THEN IF acc # <<>> /\ acc[Len(acc)] # DotDot
                      THEN CleanSegs(t, SubSeq(acc, 1, Len(acc) - 1), abs)
                      ELSE IF abs THEN CleanSegs(t, acc, abs)
                           ELSE CleanSegs(t, Append(acc, h), abs)
                 ELSE CleanSegs(t, Append(acc, h), abs)

RECURSIVE JoinSegs(_)
JoinSegs(segs) ==
    IF segs = <<>> THEN <<>>
    ELSE IF Len(segs) = 1 THEN segs[1]
    ELSE segs[1] \o Slash \o JoinSegs(Tail(segs))

Flat(abs, segs) ==
    IF abs THEN Slash \o JoinSegs(segs)
    ELSE IF segs = <<>> THEN Dot ELSE JoinSegs(segs)

Clean(s) == IF s = <<>> THEN Dot ELSE Flat(IsAbs(s), CleanSegs(Segs(s), <<>>, IsAbs(s)))

\* filepath.Join(a, b): the non-empty elements joined by a separator, cleaned.
Join(a, b) ==
    IF a = <<>> /\ b = <<>> THEN <<>>
    ELSE IF a = <<>> THEN Clean(b)
    ELSE IF b = <<>> THEN Clean(a)
    ELSE Clean(a \o Slash \o b)

\* filepath.Base(s): the last element of the path.
Base(s) ==
    LET segs == Segs(s)
    IN IF s = <<>> THEN Dot
       ELSE IF segs = <<>> THEN Slash
       ELSE segs[Len(segs)]

\* The length of the longest common prefix of two segment lists.
RECURSIVE CommonLen(_, _)
CommonLen(a, b) ==
    IF a = <<>> \/ b = <<>> \/ Head(a) # Head(b) THEN 0
    ELSE 1 + CommonLen(Tail(a), Tail(b))

\* filepath.Rel(basepath, targpath): [path, err].
Rel(basepath, targpath) ==
    LET b == Clean(basepath)
        t == Clean(targpath)
        bs == Segs(b)
        ts == Segs(t)
        n == CommonLen(bs, ts)
        ups == [i \in 1..(Len(bs) - n) |-> DotDot]
    IN IF IsAbs(b) # IsAbs(t) THEN [path |-> <<>>, err |-> TRUE]
       ELSE IF ~IsAbs(b) /\ n < Len(bs) /\ bs[n + 1] = DotDot
            THEN [path |-> <<>>, err |-> TRUE]
       ELSE [path |-> Flat(FALSE, ups \o SubSeq(ts, n + 1, Len(ts))), err |-> FALSE]

\* Segment-wise order of two paths: the order in which filepath.Walk and
\* filepath.Glob (which read each directory's names sorted) produce them.
RECURSIVE SegsLess(_, _)
SegsLess(a, b) ==
    IF b = <<>> THEN FALSE
    ELSE IF a = <<>> THEN TRUE
    ELSE IF Head(a) = Head(b) THEN SegsLess(Tail(a), Tail(b))
    ELSE StrLess(Head(a), Head(b))

WalkLess(p, q) == SegsLess(Segs(p), Segs(q))

\* The elements of a finite set of paths as a sequence in Walk order.
RECURSIVE SortPaths(_)
SortPaths(S) ==
    IF S = {} THEN <<>>
    ELSE LET m == CHOOSE x \in S : \A y \in S \ {x} : WalkLess(x, y)
         IN <<m>> \o SortPaths(S \ {m})

----------------------------------------------------------------------------
(* Glob matching (filepath.Match, filepath.Glob, filepath.Walk) *)

\* The index of the "]" closing the class opened at p[i] = "[", or 0 when the
\* class is malformed: a class holds at least one character before its "]".
ClassEnd(p, i) ==
    LET ends == {k \in (i + 2)..Len(p) : p[k] = "]"}
    IN IF i + 1 > Len(p) \/ p[i + 1] = "]" \/ ends = {} THEN 0
       ELSE CHOOSE k \in ends : \A m \in ends : k <= m

\* Whether the pattern is syntactically valid (otherwise ErrBadPattern).
RECURSIVE WellFormedFrom(_, _)
WellFormedFrom(p, i) ==
    IF i > Len(p) THEN TRUE
    ELSE IF p[i] = "["
         THEN ClassEnd(p, i) # 0 /\ WellFormedFrom(p, ClassEnd(p, i) + 1)
         ELSE WellFormedFrom(p, i + 1)

WellFormed(p) == WellFormedFrom(p, 1)

\* Whether s from position j matches the well-formed pattern p from position i:
\* "*" is any run of non-separator characters, "?" one non-separator character,
\* "[...]" one character of the class, anything else itself.
RECURSIVE MatchFrom(_, _, _, _)
MatchFrom(p, i, s, j) ==
    IF i > Len(p) THEN j > Len(s)
    ELSE IF p[i] = "*"
         THEN \E k \in j..(Len(s) + 1) :
                  /\ \A m \in j..(k - 1) : s[m] # "/"
                  /\ MatchFrom(p, i + 1, s, k)
    ELSE IF p[i] = "?"
         THEN j <= Len(s) /\ s[j] # "/" /\ MatchFrom(p, i + 1, s, j + 1)
    ELSE IF p[i] = "["
         THEN /\ j <= Len(s)
              /\ \E k \in (i + 1)..(ClassEnd(p, i) - 1) : p[k] = s[j]
              /\ MatchFrom(p, ClassEnd(p, i) + 1, s, j + 1)
    ELSE j <= Len(s) /\ s[j] = p[i] /\ MatchFrom(p, i + 1, s, j + 1)

\* filepath.Match(pattern, name): a malformed pattern is an error whatever the name.
Match(pattern, name) ==
    IF ~WellFormed(pattern) THEN [matched |-> FALSE, err |-> TRUE]
    ELSE [matched |-> MatchFrom(pattern, 1, name, 1), err |-> FALSE]

HasMeta(p) == \E i \in 1..Len(p) : p[i] \in {"*", "?", "["}

\* The directories of a disk holding the regular files `files`.
DirsOf(files) ==
    UNION {{Flat(TRUE, SubSeq(Segs(f), 1, n)) : n \in 0..(Len(Segs(f)) - 1)} : f \in files}

Entries(files) == files \cup DirsOf(files)

Exists(files, p) == Clean(p) \in Entries(files)

\* filepath.Glob of an absolute pattern: the entries (files and directories) with
\* as many segments as the pattern, each matching the pattern's segment at its
\* place, in the order the sorted directory reads give. "**" is no special
\* segment to Glob: it matches like "*".
Glob(pattern, files) ==
    LET ps == Segs(pattern)
        hit(e) ==
            LET es == Segs(e)
            IN /\ Len(es) = Len(ps)
               /\ \A i \in 1..Len(ps) : Match(ps[i], es[i]).matched
    IN IF ~WellFormed(pattern) THEN [matches |-> <<>>, err |-> TRUE]
       ELSE IF ~HasMeta(pattern)
            THEN [matches |-> IF Exists(files, pattern) THEN <<pattern>> ELSE <<>>,
                  err |-> FALSE]
       ELSE [matches |-> SortPaths({e \in Entries(files) : hit(e)}), err |-> FALSE]

\* The regular files filepath.Walk(root) visits, in order.
Walk(root, files) ==
    LET rs == Segs(root)
    IN SortPaths({f \in files : Len(Segs(f)) >= Len(rs)
                               /\ SubSeq(Segs(f), 1, Len(rs)) = rs})
----------------------------------------------------------------------------
(* config: ResolveProtoFiles (the proto_files configuration) *)

\* resolveRecursivePattern reporting a missing base directory as an error.
resolveRecursivePatternMissingFails(pattern, projectRoot, files) ==
    LET starStarIndex == Index(pattern, StarStar)
        baseDir == Join(projectRoot, TrimSuffix(SubSeq(pattern, 1, starStarIndex), Slash))
        filePattern == TrimPrefix(SubSeq(pattern, starStarIndex + 3, Len(pattern)), Slash)
        walked == Walk(baseDir, files)
    IN IF starStarIndex = -1 THEN Glob(Join(projectRoot, pattern), files)
       ELSE IF ~Exists(files, baseDir) THEN [matches |-> <<>>, err |-> TRUE]
       ELSE IF walked # <<>> /\ Match(filePattern, Base(walked[1])).err
            THEN [matches |-> <<>>, err |-> TRUE]
       ELSE [matches |-> SelectSeq(walked, LAMBDA f : Match(filePattern, Base(f)).matched),
             err |-> FALSE]

\* resolveRecursivePattern(pattern, projectRoot): [matches, err].
\* The pattern is split at its first "**"; the walk tests every regular file's
\* base name against the rest, and stops at the first Match error.
resolveRecursivePattern(pattern, projectRoot, files) ==
    LET starStarIndex == Index(pattern, StarStar)
        baseDir == Join(projectRoot, TrimSuffix(SubSeq(pattern, 1, starStarIndex), Slash))
        filePattern == TrimPrefix(SubSeq(pattern, starStarIndex + 3, Len(pattern)), Slash)
        walked == Walk(baseDir, files)
    IN IF starStarIndex = -1 THEN Glob(Join(projectRoot, pattern), files)
       ELSE IF ~Exists(files, baseDir) THEN [matches |-> <<>>, err |-> FALSE]
       ELSE IF walked # <<>> /\ Match(filePattern, Base(walked[1])).err
            THEN [matches |-> <<>>, err |-> TRUE]
       ELSE [matches |-> SelectSeq(walked, LAMBDA f : Match(filePattern, Base(f)).matched),
             err |-> FALSE]

\* What one pattern of the list contributes.
ResolvePattern(pattern, projectRoot, files) ==
    IF IsAbs(pattern) THEN Glob(pattern, files)
    ELSE IF Contains(pattern, StarStar)
         THEN resolveRecursivePattern(pattern, projectRoot, files)
         ELSE Glob(Join(projectRoot, pattern), files)

\* ResolveProtoFiles(config, projectRoot): [files, err]. The matches of the
\* patterns are appended in list order; the first error ends the call.
RECURSIVE ResolveFrom(_, _, _, _)
ResolveFrom(patterns, projectRoot, files, resolvedFiles) ==
    IF patterns = <<>> THEN [files |-> resolvedFiles, err |-> FALSE]
    ELSE LET r == ResolvePattern(Head(patterns), projectRoot, files)
         IN IF r.err THEN [files |-> <<>>, err |-> TRUE]
            ELSE ResolveFrom(Tail(patterns), projectRoot, files, resolvedFiles \o r.matches)

ResolveProtoFiles(protoFiles, projectRoot, files) ==
    ResolveFrom(protoFiles, projectRoot, files, <<>>)

----------------------------------------------------------------------------
(* compiler: findProtoFiles / shouldIgnoreFile (the proto_paths configuration) *)

StarDotProto == <<"*", ".", "p", "r", "o", "t", "o">>

\* shouldIgnoreFile matching the patterns against the whole path.
shouldIgnoreFileWholePath(filePath, IgnoredPatterns) ==
    \E i \in 1..Len(IgnoredPatterns) :
        LET m == Match(IgnoredPatterns[i], filePath)
        IN ~m.err /\ m.matched

\* shouldIgnoreFile(filePath): some ignore pattern matches the base file name;
\* an invalid pattern is skipped.
shouldIgnoreFile(filePath, IgnoredPatterns) ==
    \E i \in 1..Len(IgnoredPatterns) :
        LET m == Match(IgnoredPatterns[i], Base(filePath))
        IN ~m.err /\ m.matched

\* The paths of `matches` that are not ignored, relative to the project root.
RelOfKept(matches, ProjectRoot, IgnoredPatterns) ==
    LET kept == SelectSeq(matches, LAMBDA m : ~shouldIgnoreFile(m, IgnoredPatterns))
    IN [i \in 1..Len(kept) |-> Rel(ProjectRoot, kept[i]).path]

\* protoFiles with those elements of `more` appended that it does not hold yet.
RECURSIVE AppendNew(_, _)
AppendNew(protoFiles, more) ==
    IF more = <<>> THEN protoFiles
    ELSE IF \E i \in 1..Len(protoFiles) : protoFiles[i] = Head(more)
         THEN AppendNew(protoFiles, Tail(more))
         ELSE AppendNew(Append(protoFiles, Head(more)), Tail(more))

\* One search path: the glob <path>/**/*.proto appended as it comes, then the
\* glob <path>/*.proto appended where not already present.
RECURSIVE FindFrom(_, _, _, _, _)
FindFrom(searchPaths, ProjectRoot, IgnoredPatterns, files, protoFiles) ==
    IF searchPaths = <<>> THEN [files |-> protoFiles, err |-> FALSE]
    ELSE LET absolutePath == Join(ProjectRoot, Head(searchPaths))
             deep == Glob(Join(Join(absolutePath, StarStar), StarDotProto), files)
             simple == Glob(Join(absolutePath, StarDotProto), files)
             afterDeep == protoFiles \o RelOfKept(deep.matches, ProjectRoot, IgnoredPatterns)
             afterSimple ==
                 AppendNew(afterDeep, RelOfKept(simple.matches, ProjectRoot, IgnoredPatterns))
         IN IF deep.err \/ simple.err THEN [files |-> <<>>, err |-> TRUE]
            ELSE FindFrom(Tail(searchPaths), ProjectRoot, IgnoredPatterns, files, afterSimple)

\* findProtoFiles(): [files, err], over ProtoPaths followed by IncludePaths.
findProtoFiles(ProjectRoot, Config, files) ==
    FindFrom(Config.ProtoPaths \o Config.IncludePaths, ProjectRoot,
             Config.IgnoredPatterns, files, <<>>)

----------------------------------------------------------------------------------------------------------------------------------------------------
(* compiler: sortProtoFilesByDependencies *)

GooglePrefix == <<"g", "o", "o", "g", "l", "e", "/">>

\* The loop of sortProtoFilesByDependencies over the files not yet looked at.
RECURSIVE SortFrom(_, _, _)
SortFrom(protoFiles, googleFiles, otherFiles) ==
    IF protoFiles = <<>> THEN googleFiles \o otherFiles
    ELSE IF HasPrefix(Head(protoFiles), GooglePrefix)
         THEN SortFrom(Tail(protoFiles), Append(googleFiles, Head(protoFiles)), otherFiles)
         ELSE SortFrom(Tail(protoFiles), googleFiles, Append(otherFiles, Head(protoFiles)))

\* sortProtoFilesByDependencies putting each file in front of its group.
sortProtoFilesByDependenciesPrepending(protoFiles) ==
    LET google == SelectSeq(protoFiles, LAMBDA f : HasPrefix(f, GooglePrefix))
        other == SelectSeq(protoFiles, LAMBDA f : ~HasPrefix(f, GooglePrefix))
        rev(s) == [i \in 1..Len(s) |-> s[Len(s) + 1 - i]]
    IN rev(google) \o rev(other)

\* p.sortProtoFilesByDependencies(protoFiles).
sortProtoFilesByDependencies(protoFiles) == SortFrom(protoFiles, <<>>, <<>>)

----
(* Resolver runs: the inputs the resolvers are applied to *)

MaxPatterns == 2

ResolverRoot == <<"/", "r">>

\* The regular files a disk of a resolver run may hold.
FileUniverse ==
    { <<"/", "r", "/", "a", ".", "p", "r", "o", "t", "o">>, <<"/", "r", "/", "s", "u", "b", "/", "b", ".", "p", "r", "o", "t", "o">>, <<"/", "r", "/", "u", "s", "e", "r", "_", "t", "e", "s", "t", ".", "p", "r", "o", "t", "o">>,
      <<"/", "r", "/", "s", "u", "b", "/", "u", "s", "e", "r", "_", "t", "e", "s", "t", ".", "p", "r", "o", "t", "o">>, <<"/", "r", "/", "t", "m", "p", "/", "t", "e", "s", "t", ".", "p", "r", "o", "t", "o">>, <<"/", "r", "/", "s", "u", "b", "/", "x", "/", "c", ".", "p", "r", "o", "t", "o">> }

\* The source patterns a proto_files list may hold: relative and absolute,
\* single-level and recursive (relative and absolute), well-formed and malformed.
PatternUniverse ==
    { <<"*", ".", "p", "r", "o", "t", "o">>, <<"*", "*", "/", "*", ".", "p", "r", "o", "t", "o">>, <<"s", "u", "b", "/", "*", ".", "p", "r", "o", "t", "o">>, <<"s", "u", "b", "/", "*", "*", "/", "*", ".", "p", "r", "o", "t", "o">>,
      <<"/", "r", "/", "s", "u", "b", "/", "*", ".", "p", "r", "o", "t", "o">>, <<"[">>,
      <<"/", "r", "/", "*", "*", "/", "*", ".", "p", "r", "o", "t", "o">>,
      <<"s", "u", "b", "/", "*", "*", "/", "[">>, <<"/", "r", "/", "s", "u", "b", "/", "*", "*", "/", "[">> }

SeqsUpTo(S, n) == UNION {[1..k -> S] : k \in 0..n}

ProtoFilesConfigs ==
    {[kind |-> "proto_files", ProtoFiles |-> ps, ProtoPaths |-> <<>>,
      IncludePaths |-> <<>>, IgnoredPatterns |-> <<>>] :
        ps \in SeqsUpTo(PatternUniverse, MaxPatterns)}

IgnoreLists ==
    { <<>>, << <<"*", "_", "t", "e", "s", "t", ".", "p", "r", "o", "t", "o">> >>, << <<"t", "m", "p", "/", "*", "*">> >>, << <<"[">> >>,
      << <<"*", "_", "t", "e", "s", "t", ".", "p", "r", "o", "t", "o">>, <<"t", "m", "p", "/", "*", "*">> >>, << <<"[">>, <<"*", "_", "t", "e", "s", "t", ".", "p", "r", "o", "t", "o">> >> }

PathsConfigs ==
    {[kind |-> "proto_paths", ProtoFiles |-> <<>>, ProtoPaths |-> pp,
      IncludePaths |-> ip, IgnoredPatterns |-> ig] :
        pp \in { <<Dot>>, << <<"s", "u", "b">> >>, <<Dot, <<"s", "u", "b">> >> },
        ip \in { <<>>, <<Dot>> },
        ig \in IgnoreLists}

NotRun == [fn |-> "none", files |-> <<>>, err |-> FALSE]

ResolverInit ==
    /\ rFiles \in SUBSET FileUniverse
    /\ rConfig \in ProtoFilesConfigs \cup PathsConfigs
    /\ rOut = NotRun

\* config.ResolveProtoFiles(config, projectRoot) is called.
RunResolveProtoFiles ==
    /\ rOut = NotRun
    /\ rConfig.kind = "proto_files"
    /\ LET r == ResolveProtoFiles(rConfig.ProtoFiles, ResolverRoot, rFiles)
       IN rOut' = [fn |-> "ResolveProtoFiles", files |-> r.files, err |-> r.err]
    /\ UNCHANGED <<rFiles, rConfig, serverVars, concVars, initVars, hostVars>>

\* p.findProtoFiles() is called.
RunFindProtoFiles ==
    /\ rOut = NotRun
    /\ rConfig.kind = "proto_paths"
    /\ LET r == findProtoFiles(ResolverRoot, rConfig, rFiles)
       IN rOut' = [fn |-> "findProtoFiles", files |-> r.files, err |-> r.err]
    /\ UNCHANGED <<rFiles, rConfig, serverVars, concVars, initVars, hostVars>>

----------------------------------------------------------------------------
(* Server runs: the disk, the configuration files and the compiler *)

\* The project directories a caller may name.
RootA == <<"/", "a">>
RootB == <<"/", "b">>
RootNoConfig == <<"/", "n">>
RootBadYaml == <<"/", "i">>
RootBadGlob == <<"/", "g">>
RootEmpty == <<"/", "e">>
RootSyntax == <<"/", "s">>

Roots == {RootA, RootB, RootNoConfig, RootBadYaml, RootBadGlob, RootEmpty, RootSyntax}

ApiA == <<"/", "a", "/", "a", "p", "i", ".", "p", "r", "o", "t", "o">>
TypesA == <<"/", "a", "/", "s", "u", "b", "/", "t", "y", "p", "e", "s", ".", "p", "r", "o", "t", "o">>
ApiB == <<"/", "b", "/", "a", "p", "i", ".", "p", "r", "o", "t", "o">>
BadS == <<"/", "s", "/", "b", "a", "d", ".", "p", "r", "o", "t", "o">>

\* The regular .proto files on the disk of a server run.
ServerDisk == {ApiA, TypesA, ApiB, BadS}

Method(name, input, output, cs, ss) ==
    [Name |-> name, InputType |-> input, OutputType |-> output,
     ClientStreaming |-> cs, ServerStreaming |-> ss]

\* What each file declares at top level (its source text, parsed), or a syntax error.
Source(path) ==
    IF path = ApiA THEN
        [ok |-> TRUE, Package |-> <<"a", "v1">>,
         MessageType |-> << [Name |-> "User", Field |-> <<"id", "name">>],
                            [Name |-> "Product", Field |-> <<"id">>] >>,
         Service |-> << [Name |-> "UserService",
                         Method |-> << Method("GetUser", "User", "User", FALSE, FALSE),
                                       Method("Watch", "User", "User", FALSE, TRUE) >>] >>,
         EnumType |-> << [Name |-> "Status", Value |-> <<"UNKNOWN", "ACTIVE">>] >>]
    ELSE IF path = TypesA THEN
        [ok |-> TRUE, Package |-> <<"a", "v1">>,
         MessageType |-> << [Name |-> "user", Field |-> <<>>],
                            [Name |-> "UserProfile", Field |-> <<"user", "bio", "age">>] >>,
         Service |-> <<>>,
         EnumType |-> << [Name |-> "Role", Value |-> <<"ADMIN">>] >>]
    ELSE IF path = ApiB THEN
        [ok |-> TRUE, Package |-> <<"b", "v1">>,
         MessageType |-> << [Name |-> "Order", Field |-> <<"id", "total">>] >>,
         Service |-> << [Name |-> "OrderService",
                         Method |-> << Method("Place", "Order", "Order", TRUE, FALSE) >>],
                        [Name |-> "Audit", Method |-> <<>>] >>,
         EnumType |-> << [Name |-> "Status", Value |-> <<"OPEN", "PAID", "SHIPPED">>] >>]
    ELSE [ok |-> FALSE, Package |-> <<>>, MessageType |-> <<>>, Service |-> <<>>,
          EnumType |-> <<>>]

\* The project configuration file of a directory: whether it exists, whether
\* it parses, and the configuration it holds.
ConfigFile(root) ==
    IF root = RootA THEN
        [exists |-> TRUE, parses |-> TRUE,
         config |-> [ProtoFiles |-> << <<"*", "*", "/", "*", ".", "p", "r", "o", "t", "o">> >>, ImportPaths |-> <<Dot>>]]
    ELSE IF root = RootB THEN
        [exists |-> TRUE, parses |-> TRUE,
         config |-> [ProtoFiles |-> << <<"*", ".", "p", "r", "o", "t", "o">> >>, ImportPaths |-> <<Dot>>]]
    ELSE IF root = RootBadGlob THEN
        [exists |-> TRUE, parses |-> TRUE,
         config |-> [ProtoFiles |-> << <<"[">> >>, ImportPaths |-> <<Dot>>]]
    ELSE IF root \in {RootEmpty, RootSyntax} THEN
        [exists |-> TRUE, parses |-> TRUE,
         config |-> [ProtoFiles |-> << <<"*", ".", "p", "r", "o", "t", "o">> >>, ImportPaths |-> <<Dot>>]]
    ELSE IF root = RootBadYaml THEN
        [exists |-> TRUE, parses |-> FALSE,
         config |-> [ProtoFiles |-> <<>>, ImportPaths |-> <<>>]]
    ELSE [exists |-> FALSE, parses |-> FALSE,
          config |-> [ProtoFiles |-> <<>>, ImportPaths |-> <<>>]]

\* config.ProjectExists(projectRoot)
ProjectExists(projectRoot) == ConfigFile(projectRoot).exists

\* config.LoadProjectConfig(projectRoot): [config, err]
LoadProjectConfig(projectRoot) ==
    LET f == ConfigFile(projectRoot)
    IN [config |-> f.config, err |-> ~(f.exists /\ f.parses)]

NilProtos == [isNil |-> TRUE, File |-> <<>>]

NoProject ==
    [isNil |-> TRUE, ProjectRoot |-> <<>>,
     Config |-> [ProtoFiles |-> <<>>, ImportPaths |-> <<>>],
     protoFiles |-> <<>>, CompiledProtos |-> NilProtos]

\* The import paths of a configuration made absolute against the project root.
AbsImportPaths(importPaths, projectRoot) ==
    [i \in 1..Len(importPaths) |->
        IF IsAbs(importPaths[i]) THEN importPaths[i] ELSE Join(projectRoot, importPaths[i])]

\* compiler.NewProtobufProject(projectRoot, cfg): [project, err]. The files are
\* resolved here and kept relative to the project root; nothing is compiled.
NewProtobufProject(projectRoot, cfg) ==
    LET r == ResolveProtoFiles(cfg.ProtoFiles, projectRoot, ServerDisk)
        relativeProtoFiles == [i \in 1..Len(r.files) |-> Rel(projectRoot, r.files[i]).path]
    IN IF r.err THEN [project |-> NoProject, err |-> TRUE]
       ELSE [project |-> [isNil |-> FALSE, ProjectRoot |-> projectRoot, Config |-> cfg,
                          protoFiles |-> relativeProtoFiles, CompiledProtos |-> NilProtos],
             err |-> FALSE]

\* filepath.Dir(p): the path without its last element.
Dir(p) ==
    LET segs == Segs(Clean(p))
    IN IF segs = <<>> THEN (IF IsAbs(p) THEN Slash ELSE Dot)
       ELSE Flat(IsAbs(p), SubSeq(segs, 1, Len(segs) - 1))

\* The working directory of the server process.
Cwd == Slash

\* CompileProtos, a relative import path: the first directory, going up from
\* the working directory, under which the path exists; the path under the
\* working directory when there is none.
RECURSIVE SearchUp(_, _, _)
SearchUp(projectRoot, importPath, fullPath) ==
    IF Exists(ServerDisk, Join(projectRoot, importPath)) THEN Join(projectRoot, importPath)
    ELSE IF Dir(projectRoot) = projectRoot THEN fullPath
    ELSE SearchUp(Dir(projectRoot), importPath, fullPath)

\* CompileProtos: the import paths the source resolver is given.
ResolvedImportPaths(importPaths) ==
    [i \in 1..Len(importPaths) |->
        IF IsAbs(importPaths[i]) THEN importPaths[i]
        ELSE SearchUp(Cwd, importPaths[i], Join(Cwd, importPaths[i]))]

\* The import paths under which CompileProtos takes a file to lie: Rel
\* succeeds and its result does not begin with the two characters "..".
HomeRoots(protoFile, resolvedImportPaths) ==
    {i \in 1..Len(resolvedImportPaths) :
        LET r == Rel(resolvedImportPaths[i], protoFile)
        IN ~r.err /\ ~HasPrefix(r.path, DotDot)}

\* CompileProtos: the name one proto file is handed to the compiler under.
\* An absolute file is made relative to the first import path it lies under,
\* and replaced by its base name when there is none; a relative one is kept.
RelativeProtoFile(protoFile, resolvedImportPaths) ==
    LET hits == HomeRoots(protoFile, resolvedImportPaths)
    IN IF ~IsAbs(protoFile) THEN protoFile
       ELSE IF hits = {} THEN Base(protoFile)
       ELSE Rel(resolvedImportPaths[CHOOSE i \in hits : \A k \in hits : i <= k],
                protoFile).path

RelativeProtoFiles(protoFiles, resolvedImportPaths) ==
    [i \in 1..Len(protoFiles) |-> RelativeProtoFile(protoFiles[i], resolvedImportPaths)]

\* Where the source resolver finds a file name: under the first import path
\* that holds it, under the working directory when there are no import paths,
\* or nowhere (the empty string).
FindSource(name, importPaths) ==
    LET hits == {i \in 1..Len(importPaths) : Join(importPaths[i], name) \in ServerDisk}
    IN IF importPaths = <<>>
       THEN (IF Join(Cwd, name) \in ServerDisk THEN Join(Cwd, name) ELSE <<>>)
       ELSE IF hits = {} THEN <<>>
       ELSE Join(importPaths[CHOOSE i \in hits : \A k \in hits : i <= k], name)

\* The descriptor of one compiled file.
FileDescriptor(name, src) ==
    [Name |-> name, Package |-> src.Package, MessageType |-> src.MessageType,
     Service |-> src.Service, EnumType |-> src.EnumType]

\* The orders in which the compiler's parallel tasks, one per name, may finish.
CompletionOrders(n) ==
    {order \in [1..n -> 1..n] : \A i, k \in 1..n : order[i] = order[k] => i = k}

SomeOrder(n) == CHOOSE order \in CompletionOrders(n) : TRUE

\* The finished tasks in the order they finish: each is the position of its
\* name with the descriptor compiled for it.
Completed(names, found, order) ==
    [k \in 1..Len(order) |->
        [index |-> order[k],
         file |-> FileDescriptor(names[order[k]], Source(found[order[k]]))]]

\* The results listed as the tasks finish.
PlacedAsCompleted(completed) ==
    [k \in 1..Len(completed) |-> completed[k].file]

\* The results of Compile: each task's descriptor is stored at the position
\* of its name, whenever the task finishes.
Placed(completed) ==
    [i \in 1..Len(completed) |->
        completed[CHOOSE k \in 1..Len(completed) : completed[k].index = i].file]

\* The names the compiler fails on, given where each was found.
FailedNames(names, found) ==
    {i \in 1..Len(names) : found[i] = <<>> \/ ~Source(found[i]).ok}

\* Compile, given where each name was found and which of them fail: the
\* error names the first name that fails.
CompileFound(names, found, bad) ==
    IF bad # {}
    THEN [files |-> <<>>, err |-> TRUE,
          named |-> names[CHOOSE i \in bad : \A k \in bad : i <= k]]
    ELSE [files |-> Placed(Completed(names, found, SomeOrder(Len(names)))),
          err |-> FALSE, named |-> <<>>]

CompileNames(names, found) == CompileFound(names, found, FailedNames(names, found))

\* protocompile's Compiler.Compile(files...): [files, err, named]. Every name
\* must be found under an import path and parse; the descriptors come in the
\* order of the names given.
CompilerCompile(names, importPaths) ==
    CompileNames(names, [i \in 1..Len(names) |-> FindSource(names[i], importPaths)])

\* compiler.CompileProtos(ctx, protoFiles, importPaths):
\* [protos, err, msg, named, names], names being what the compiler was given.
CompileResult(c) ==
    IF c.err
    THEN [protos |-> NilProtos, err |-> TRUE, msg |-> "failed to compile proto files: %w",
          named |-> c.named]
    ELSE [protos |-> [isNil |-> FALSE, File |-> c.files], err |-> FALSE, msg |-> "",
          named |-> <<>>]

CompileRelative(names, resolvedImportPaths) ==
    [names |-> names] @@ CompileResult(CompilerCompile(names, resolvedImportPaths))

CompileResolved(protoFiles, resolvedImportPaths) ==
    CompileRelative(RelativeProtoFiles(protoFiles, resolvedImportPaths), resolvedImportPaths)

\* CompileProtos without its check for an empty list of files.
CompileProtosFilesUnchecked(protoFiles, importPaths) ==
    CompileResolved(protoFiles, ResolvedImportPaths(importPaths))

CompileProtosFiles(protoFiles, importPaths) ==
    IF Len(protoFiles) = 0
    THEN [protos |-> NilProtos, err |-> TRUE,
          msg |-> "no proto files found in configured paths", named |-> <<>>,
          names |-> <<>>]
    ELSE CompileResolved(protoFiles, ResolvedImportPaths(importPaths))

\* CompileProtos(ctx) clearing CompiledProtos when the compilation fails.
SetCompiledClearing(p, r) ==
    IF r.err THEN [project |-> [p EXCEPT !.CompiledProtos = NilProtos], err |-> TRUE, msg |-> r.msg]
    ELSE [project |-> [p EXCEPT !.CompiledProtos = r.protos], err |-> FALSE, msg |-> ""]

\* (p *ProtobufProject) CompileProtos(ctx): [project, err, msg]. CompiledProtos is
\* assigned on success only.
SetCompiled(p, r) ==
    IF r.err THEN [project |-> p, err |-> TRUE, msg |-> r.msg]
    ELSE [project |-> [p EXCEPT !.CompiledProtos = r.protos], err |-> FALSE, msg |-> ""]

\* CompileProtos(ctx) reporting a compilation without storing its result.
CompileProtosDiscarding(p) ==
    [SetCompiled(p, CompileProtosFiles(p.protoFiles,
                                       AbsImportPaths(p.Config.ImportPaths, p.ProjectRoot)))
        EXCEPT !.project = p]

CompileProtos(p) ==
    SetCompiled(p, CompileProtosFiles(p.protoFiles,
                                      AbsImportPaths(p.Config.ImportPaths, p.ProjectRoot)))

RECURSIVE Flatten(_)
Flatten(seqs) == IF seqs = <<>> THEN <<>> ELSE Head(seqs) \o Flatten(Tail(seqs))

NotCompiledErr == "project not compiled yet, call CompileProtos first"

\* GetServices / GetMessages / GetEnums: [list, err, msg]
GetServices(p) ==
    IF p.CompiledProtos.isNil THEN [list |-> <<>>, err |-> TRUE, msg |-> NotCompiledErr]
    ELSE [list |-> Flatten([i \in 1..Len(p.CompiledProtos.File) |->
                               p.CompiledProtos.File[i].Service]), err |-> FALSE, msg |-> ""]

GetMessages(p) ==
    IF p.CompiledProtos.isNil THEN [list |-> <<>>, err |-> TRUE, msg |-> NotCompiledErr]
    ELSE [list |-> Flatten([i \in 1..Len(p.CompiledProtos.File) |->
                               p.CompiledProtos.File[i].MessageType]), err |-> FALSE, msg |-> ""]

GetEnums(p) ==
    IF p.CompiledProtos.isNil THEN [list |-> <<>>, err |-> TRUE, msg |-> NotCompiledErr]
    ELSE [list |-> Flatten([i \in 1..Len(p.CompiledProtos.File) |->
                               p.CompiledProtos.File[i].EnumType]), err |-> FALSE, msg |-> ""]

----------------------------------------------------------------------------
(* The compiler of the older revision, which resolves the patterns itself *)

\* CompileProtos(ctx, rootDir, patterns, importPaths): the names handed to the
\* compiler. Each file is made relative to the first import path for which
\* Rel succeeds with a relative result other than the file itself; a file
\* with no such import path is left out.
RelativeProtoFile008(file, absImportPaths) ==
    LET hits == {k \in 1..Len(absImportPaths) :
                    LET r == Rel(absImportPaths[k], file)
                    IN ~r.err /\ ~IsAbs(r.path) /\ r.path # file}
    IN IF hits = {} THEN <<>>
       ELSE << Rel(absImportPaths[CHOOSE i \in hits : \A k \in hits : i <= k], file).path >>

RelativeProtoFiles008(protoFiles, absImportPaths) ==
    Flatten([i \in 1..Len(protoFiles) |-> RelativeProtoFile008(protoFiles[i], absImportPaths)])

CompileResolved008(resolved, absImportPaths) ==
    IF resolved.err
    THEN [protos |-> NilProtos, err |-> TRUE, msg |-> "failed to resolve proto files: %w",
          named |-> <<>>, names |-> <<>>]
    ELSE IF Len(resolved.files) = 0
    THEN [protos |-> NilProtos, err |-> TRUE,
          msg |-> "no proto files found in configured paths", named |-> <<>>,
          names |-> <<>>]
    ELSE CompileRelative(RelativeProtoFiles008(resolved.files, absImportPaths),
                         absImportPaths)

\* The source resolver is given the import paths as configured and the
\* working directory is the root directory when the compiler runs, so a
\* relative import path is looked up under the root directory.
CompileProtos008(rootDir, patterns, importPaths) ==
    CompileResolved008(ResolveProtoFiles(patterns, rootDir, ServerDisk),
                       AbsImportPaths(importPaths, rootDir))

----------------------------------------------------------------------------
(* Compiler runs: the inputs the compilers are applied to *)

MaxInputs == 2

\* The files a caller may hand to CompileProtos: absolute and relative.
CompileFileUniverse == {ApiA, TypesA, ApiB, <<"a", "p", "i", ".", "p", "r", "o", "t", "o">>}

\* The import paths a configuration may list: absolute and relative.
ImportPathUniverse == {RootA, RootA \o <<"/", "s", "u", "b">>, RootB, <<"s", "u", "b">>, Dot}

FilesInputs ==
    {[kind |-> "files", protoFiles |-> fs, ImportPaths |-> ip] :
        fs \in SeqsUpTo(CompileFileUniverse, MaxInputs),
        ip \in SeqsUpTo(ImportPathUniverse, MaxInputs)}

ProjectInputs ==
    {[kind |-> "project", rootDir |-> root, ProtoFiles |-> ps, ImportPaths |-> ip] :
        root \in {RootA, RootB, RootEmpty, RootSyntax},
        ps \in { << StarDotProto >>, << StarStar \o Slash \o StarDotProto >> },
        ip \in SeqsUpTo(ImportPathUniverse, MaxInputs)}

\* The projects of the revision that finds its files under proto paths.
PathsInputs ==
    {[kind |-> "paths", rootDir |-> root, ProtoPaths |-> pp, IncludePaths |-> <<>>,
      IgnoredPatterns |-> <<>>] :
        root \in {RootA, RootEmpty},
        pp \in { <<Dot>>, << <<"s", "u", "b">> >>, << <<"[">> >> }}

\* What CompiledProtos may hold when CompileProtos is called: nothing, or the
\* descriptors of an earlier compilation, made when the disk held other files.
EarlierProtos ==
    {NilProtos,
     [isNil |-> FALSE,
      File |-> <<FileDescriptor(<<"o", "l", "d", ".", "p", "r", "o", "t", "o">>, Source(ApiB))>>]}

CompilerInit ==
    /\ rFiles = ServerDisk
    /\ rConfig \in FilesInputs \cup ProjectInputs \cup PathsInputs
    /\ rOut = NotRun

\* The outcome of a compiler run: the absolute source files it was about,
\* the absolute import paths, and what CompileProtos answered.
CompileOut(fn, sources, roots, r) ==
    [fn |-> fn, sources |-> sources, roots |-> roots, files |-> r.names,
     err |-> r.err, msg |-> r.msg, named |-> r.named, protos |-> r.protos]

\* compiler.CompileProtos(ctx, protoFiles, importPaths) is called.
RunCompileProtos ==
    /\ rOut = NotRun
    /\ rConfig.kind = "files"
    /\ rOut' = CompileOut("CompileProtos",
                          SelectSeq(rConfig.protoFiles, IsAbs),
                          ResolvedImportPaths(rConfig.ImportPaths),
                          CompileProtosFiles(rConfig.protoFiles, rConfig.ImportPaths))
    /\ UNCHANGED <<rFiles, rConfig, serverVars, concVars, initVars, hostVars>>

ProjectCompiled(rootDir, cfg, created) ==
    IF created.err
    THEN CompileOut("ProtobufProject.CompileProtos", <<>>,
                    AbsImportPaths(cfg.ImportPaths, rootDir),
                    [protos |-> NilProtos, err |-> TRUE,
                     msg |-> "failed to resolve proto files: %w", named |-> <<>>,
                     names |-> <<>>])
    ELSE CompileOut("ProtobufProject.CompileProtos",
                    ResolveProtoFiles(cfg.ProtoFiles, rootDir, ServerDisk).files,
                    AbsImportPaths(cfg.ImportPaths, rootDir),
                    CompileProtosFiles(created.project.protoFiles,
                                       AbsImportPaths(cfg.ImportPaths, rootDir)))

\* NewProtobufProject(rootDir, cfg) and then its CompileProtos(ctx) are called.
RunProjectCompileProtos ==
    /\ rOut = NotRun
    /\ rConfig.kind = "project"
    /\ LET cfg == [ProtoFiles |-> rConfig.ProtoFiles, ImportPaths |-> rConfig.ImportPaths]
       IN rOut' = ProjectCompiled(rConfig.rootDir, cfg,
                                  NewProtobufProject(rConfig.rootDir, cfg))
    /\ UNCHANGED <<rFiles, rConfig, serverVars, concVars, initVars, hostVars>>

\* The older CompileProtos(ctx, rootDir, patterns, importPaths) is called.
RunCompileProtos008 ==
    /\ rOut = NotRun
    /\ rConfig.kind = "project"
    /\ rOut' = CompileOut("CompileProtos008",
                          ResolveProtoFiles(rConfig.ProtoFiles, rConfig.rootDir, ServerDisk).files,
                          AbsImportPaths(rConfig.ImportPaths, rConfig.rootDir),
                          CompileProtos008(rConfig.rootDir, rConfig.ProtoFiles,
                                           rConfig.ImportPaths))
    /\ UNCHANGED <<rFiles, rConfig, serverVars, concVars, initVars, hostVars>>

\* What a call of the method CompileProtos did to CompiledProtos.
MethodOut(fn, before, r) ==
    [fn |-> fn, before |-> before, after |-> r.project.CompiledProtos,
     err |-> r.err, msg |-> r.msg]

\* p.CompileProtos(ctx) is called on a project that may hold the descriptors
\* of an earlier compilation.
RunCompileProtosAgain ==
    /\ rOut = NotRun
    /\ rConfig.kind = "project"
    /\ LET cfg == [ProtoFiles |-> rConfig.ProtoFiles, ImportPaths |-> rConfig.ImportPaths]
           created == NewProtobufProject(rConfig.rootDir, cfg)
       IN /\ ~created.err
          /\ \E earlier \in EarlierProtos :
                 rOut' = MethodOut("ProtobufProject.CompileProtos again", earlier,
                                   CompileProtos([created.project EXCEPT
                                                      !.CompiledProtos = earlier]))
    /\ UNCHANGED <<rFiles, rConfig, serverVars, concVars, initVars, hostVars>>

\* The descriptors the proto-paths revision keeps: the name of each file, in
\* the order the files were handed to the compiler.
NamesOnly(sortedFiles) ==
    [isNil |-> FALSE, File |-> [i \in 1..Len(sortedFiles) |-> [Name |-> sortedFiles[i]]]]

\* CompileProtos(ctx) of the proto-paths revision: [project, err, msg], found
\* being what findProtoFiles returned and rejected whether the compiler
\* refused a file. CompiledProtos is assigned last.
CompileProtosPaths(p, found, rejected) ==
    IF found.err
    THEN [project |-> p, err |-> TRUE, msg |-> "failed to find proto files: %w"]
    ELSE IF found.files = <<>>
    THEN [project |-> p, err |-> TRUE, msg |-> "no proto files found in configured paths"]
    ELSE IF rejected
    THEN [project |-> p, err |-> TRUE, msg |-> "failed to compile proto files: %w"]
    ELSE [project |-> [p EXCEPT !.CompiledProtos =
                                    NamesOnly(sortProtoFilesByDependencies(found.files))],
          err |-> FALSE, msg |-> ""]

\* p.CompileProtos(ctx) of the proto-paths revision is called.
RunCompileProtosPaths ==
    /\ rOut = NotRun
    /\ rConfig.kind = "paths"
    /\ \E earlier \in EarlierProtos, rejected \in BOOLEAN :
           rOut' = MethodOut("CompileProtos of proto paths", earlier,
                             CompileProtosPaths(
                                 [NoProject EXCEPT !.isNil = FALSE,
                                                   !.ProjectRoot = rConfig.rootDir,
                                                   !.CompiledProtos = earlier],
                                 findProtoFiles(rConfig.rootDir, rConfig, rFiles),
                                 rejected))
    /\ UNCHANGED <<rFiles, rConfig, serverVars, concVars, initVars, hostVars>>

----------------------------------------------------------------------------
(* tools: the three handlers *)

\* A response message: the format string, the numbers and the error text
\* formatted into it.
Msg(text) == [text |-> text, nums |-> <<>>, err |-> ""]

NoBody == [kind |-> "none"]

\* mcp.NewToolResultError(text)
NewToolResultError(text) ==
    [isError |-> TRUE, success |-> FALSE, message |-> Msg(text), body |-> NoBody]

\* A response object with success=false, marshalled by mcp.NewToolResultText.
Failure(message) ==
    [isError |-> FALSE, success |-> FALSE, message |-> message, body |-> NoBody]

NoProjectActivated == "No project activated. Use activate_project first."
ProjectNotCompiled == "Project not compiled. Use activate_project first."

\* filepath.Abs(path)
Abs(path) == IF IsAbs(path) THEN Clean(path) ELSE Join(Cwd, path)

\* ActivateProjectTool.Handle after SetProject, with the counts of services
\* and messages reported under each other's name.
ActivateStatsSwapped(absPath, protobufProject, services, messages, enums) ==
    IF services.err THEN
        Failure([text |-> "Failed to get services: %v", nums |-> <<>>, err |-> services.msg])
    ELSE IF messages.err THEN
        Failure([text |-> "Failed to get messages: %v", nums |-> <<>>, err |-> messages.msg])
    ELSE IF enums.err THEN
        Failure([text |-> "Failed to get enums: %v", nums |-> <<>>, err |-> enums.msg])
    ELSE [isError |-> FALSE, success |-> TRUE,
          message |-> Msg("Project activated successfully"),
          body |-> [kind |-> "activate", ProjectRoot |-> absPath,
                    ProtoFiles |-> IF protobufProject.CompiledProtos.isNil THEN 0
                                   ELSE Len(protobufProject.CompiledProtos.File),
                    Services |-> Len(messages.list),
                    Messages |-> Len(services.list),
                    Enums |-> Len(enums.list)]]

\* ActivateProjectTool.Handle after SetProject: the statistics are read and
\* the response is built.
ActivateStats(absPath, protobufProject, services, messages, enums) ==
    IF services.err THEN
        Failure([text |-> "Failed to get services: %v", nums |-> <<>>, err |-> services.msg])
    ELSE IF messages.err THEN
        Failure([text |-> "Failed to get messages: %v", nums |-> <<>>, err |-> messages.msg])
    ELSE IF enums.err THEN
        Failure([text |-> "Failed to get enums: %v", nums |-> <<>>, err |-> enums.msg])
    ELSE [isError |-> FALSE, success |-> TRUE,
          message |-> Msg("Project activated successfully"),
          body |-> [kind |-> "activate", ProjectRoot |-> absPath,
                    ProtoFiles |-> IF protobufProject.CompiledProtos.isNil THEN 0
                                   ELSE Len(protobufProject.CompiledProtos.File),
                    Services |-> Len(services.list),
                    Messages |-> Len(messages.list),
                    Enums |-> Len(enums.list)]]

\* ActivateProjectTool.Handle from CompileProtos on, with SetProject called
\* before the compilation result is looked at.
ActivateCompiledSetFirst(absPath, compiled, cur) ==
    IF compiled.err THEN
        [current |-> compiled.project,
         resp |-> Failure([text |-> "Failed to compile proto files: %v",
                           nums |-> <<>>, err |-> compiled.msg])]
    ELSE [current |-> compiled.project,
          resp |-> ActivateStats(absPath, compiled.project,
                                 GetServices(compiled.project),
                                 GetMessages(compiled.project),
                                 GetEnums(compiled.project))]

\* ActivateProjectTool.Handle from CompileProtos on, with SetProject called
\* only while no project is current.
ActivateCompiledKeepFirst(absPath, compiled, cur) ==
    IF compiled.err THEN
        [current |-> cur,
         resp |-> Failure([text |-> "Failed to compile proto files: %v",
                           nums |-> <<>>, err |-> compiled.msg])]
    ELSE [current |-> IF cur.isNil THEN compiled.project ELSE cur,
          resp |-> ActivateStats(absPath, compiled.project,
                                 GetServices(compiled.project),
                                 GetMessages(compiled.project),
                                 GetEnums(compiled.project))]

\* ActivateProjectTool.Handle from CompileProtos on: SetProject is reached
\* only when the compilation succeeded.
ActivateCompiled(absPath, compiled, cur) ==
    IF compiled.err THEN
        [current |-> cur,
         resp |-> Failure([text |-> "Failed to compile proto files: %v",
                           nums |-> <<>>, err |-> compiled.msg])]
    ELSE [current |-> compiled.project,
          resp |-> ActivateStats(absPath, compiled.project,
                                 GetServices(compiled.project),
                                 GetMessages(compiled.project),
                                 GetEnums(compiled.project))]

\* ActivateProjectTool.Handle from NewProtobufProject on.
ActivateCreated(absPath, created, cur) ==
    IF created.err THEN
        [current |-> cur,
         resp |-> Failure([text |-> "Failed to create protobuf project: %v",
                           nums |-> <<>>, err |-> "failed to resolve proto files: %w"])]
    ELSE ActivateCompiled(absPath, CompileProtos(created.project), cur)

\* ActivateProjectTool.Handle from LoadProjectConfig on.
ActivateLoaded(absPath, loaded, cur) ==
    IF loaded.err THEN
        [current |-> cur,
         resp |-> Failure([text |-> "Failed to load project configuration: %v",
                           nums |-> <<>>, err |-> "failed to parse project config: %w"])]
    ELSE ActivateCreated(absPath, NewProtobufProject(absPath, loaded.config), cur)

\* ActivateProjectTool.Handle from the absolute path on, loading the
\* configuration without first checking that it exists.
ActivateAbsLoadFirst(absPath, cur) ==
    ActivateLoaded(absPath, LoadProjectConfig(absPath), cur)

\* ActivateProjectTool.Handle from the absolute path on.
ActivateAbs(absPath, cur) ==
    IF ~ProjectExists(absPath) THEN
        [current |-> cur,
         resp |-> Failure(Msg("Project not initialized. Run 'go run cmd/protobuf-mcp/main.go init' first."))]
    ELSE ActivateLoaded(absPath, LoadProjectConfig(absPath), cur)

\* ActivateProjectTool.Handle without its check of the project_path argument.
ActivateHandleUnchecked(projectPath, cur) ==
    ActivateAbs(Abs(projectPath), cur)

\* ActivateProjectTool.Handle: [current, resp] from the project_path argument
\* and the manager's project before the call.
ActivateHandle(projectPath, cur) ==
    IF projectPath = <<>> THEN
        [current |-> cur, resp |-> NewToolResultError("project_path parameter is required")]
    ELSE ActivateAbs(Abs(projectPath), cur)

\* ListServicesTool.convertServiceToInfo
listConvertServiceToInfo(service) ==
    [Name |-> service.Name, FullName |-> service.Name, Methods |-> service.Method,
     File |-> "", Description |-> ""]

\* ListServicesTool.Handle once the project is known to be compiled.
ListServicesCompiled(services) ==
    IF services.err THEN
        Failure([text |-> "Failed to get services: %v", nums |-> <<>>,
                 err |-> services.msg])
    ELSE [isError |-> FALSE, success |-> TRUE,
          message |-> [text |-> "Found %d services",
                       nums |-> <<Len(services.list)>>, err |-> ""],
          body |-> [kind |-> "services",
                    Services |-> [i \in 1..Len(services.list) |->
                                     listConvertServiceToInfo(services.list[i])],
                    Count |-> Len(services.list)]]

\* ListServicesTool.Handle with its two nil checks in the other order.
ListServicesHandleCompiledFirst(project) ==
    IF project.CompiledProtos.isNil THEN Failure(Msg(ProjectNotCompiled))
    ELSE IF project.isNil THEN Failure(Msg(NoProjectActivated))
    ELSE ListServicesCompiled(GetServices(project))

\* ListServicesTool.Handle: the response for the manager's project.
ListServicesHandle(project) ==
    IF project.isNil THEN Failure(Msg(NoProjectActivated))
    ELSE IF project.CompiledProtos.isNil THEN Failure(Msg(ProjectNotCompiled))
    ELSE ListServicesCompiled(GetServices(project))

\* A JSON argument value: absent, an array of items, or some other value. An
\* item is a string or something else (a number, an object, ...).
Absent == [kind |-> "absent", items |-> <<>>]
Arr(items) == [kind |-> "array", items |-> items]
Str(v) == [isString |-> TRUE, v |-> v]
Num(v) == [isString |-> FALSE, v |-> v]
Other == [kind |-> "other", items |-> <<>>]

\* GetSchemaTool.getStringArray: the string items of an array argument, in
\* order; empty for an absent argument or one that is no array.
RECURSIVE StringItems(_)
StringItems(items) ==
    IF items = <<>> THEN <<>>
    ELSE IF Head(items).isString THEN <<Head(items).v>> \o StringItems(Tail(items))
    ELSE StringItems(Tail(items))

getStringArray(arg) == IF arg.kind = "array" THEN StringItems(arg.items) ELSE <<>>

\* shouldIncludeMessage / shouldIncludeService / shouldIncludeEnum
shouldIncludeMessage(message, filters) ==
    Len(filters) = 0 \/ \E i \in 1..Len(filters) : message.Name = filters[i]

shouldIncludeService(service, filters) ==
    Len(filters) = 0 \/ \E i \in 1..Len(filters) : service.Name = filters[i]

shouldIncludeEnum(enum, filters) ==
    Len(filters) = 0 \/ \E i \in 1..Len(filters) : enum.Name = filters[i]

\* protoreflect.FullName.Name(): the last component of a dotted name.
LastName(fullName) == IF fullName = <<>> THEN "" ELSE fullName[Len(fullName)]

convertMessageToInfo(message, file) ==
    [Name |-> message.Name, FullName |-> Append(file.Package, message.Name),
     Fields |-> message.Field, File |-> file.Name, Package |-> LastName(file.Package)]

convertServiceToInfo(service, file) ==
    [Name |-> service.Name, FullName |-> Append(file.Package, service.Name),
     Methods |-> service.Method, File |-> file.Name, Package |-> LastName(file.Package)]

convertEnumToInfo(enum, file) ==
    [Name |-> enum.Name, FullName |-> Append(file.Package, enum.Name),
     Values |-> enum.Value, File |-> file.Name, Package |-> LastName(file.Package)]

convertFileToInfo(file) ==
    [Name |-> file.Name, Package |-> file.Package, Dependencies |-> <<>>]

----------------------------------------------------------------------------
(* tools: get_schema *)

EmptySchemaInfo ==
    [Messages |-> <<>>, Services |-> <<>>, Enums |-> <<>>, Files |-> <<>>,
     Stats |-> [TotalMessages |-> 0, TotalServices |-> 0, TotalEnums |-> 0,
                TotalFiles |-> 0, TotalFields |-> 0, TotalMethods |-> 0,
                TotalValues |-> 0]]

\* The file-information step counting every file, requested or not.
AddFileInfoCountsAlways(file, params, schemaInfo) ==
    IF params.IncludeFileInfo
    THEN [schemaInfo EXCEPT !.Files = Append(@, convertFileToInfo(file)),
                            !.Stats.TotalFiles = @ + 1]
    ELSE [schemaInfo EXCEPT !.Stats.TotalFiles = @ + 1]

\* buildSchemaInfo, the file-information step of one file.
AddFileInfo(file, params, schemaInfo) ==
    IF params.IncludeFileInfo
    THEN [schemaInfo EXCEPT !.Files = Append(@, convertFileToInfo(file)),
                            !.Stats.TotalFiles = @ + 1]
    ELSE schemaInfo

\* buildSchemaInfo, the loop over the messages of one file.
RECURSIVE AddMessages(_, _, _, _)
AddMessages(messages, file, params, schemaInfo) ==
    IF messages = <<>> THEN schemaInfo
    ELSE LET messageInfo == convertMessageToInfo(Head(messages), file)
         IN AddMessages(Tail(messages), file, params,
                IF shouldIncludeMessage(Head(messages), params.MessageTypes)
                THEN [schemaInfo EXCEPT !.Messages = Append(@, messageInfo),
                                        !.Stats.TotalMessages = @ + 1,
                                        !.Stats.TotalFields = @ + Len(messageInfo.Fields)]
                ELSE schemaInfo)

\* buildSchemaInfo, the loop over the services of one file.
RECURSIVE AddServices(_, _, _, _)
AddServices(services, file, params, schemaInfo) ==
    IF services = <<>> THEN schemaInfo
    ELSE LET serviceInfo == convertServiceToInfo(Head(services), file)
         IN AddServices(Tail(services), file, params,
                IF shouldIncludeService(Head(services), params.ServiceTypes)
                THEN [schemaInfo EXCEPT !.Services = Append(@, serviceInfo),
                                        !.Stats.TotalServices = @ + 1,
                                        !.Stats.TotalMethods = @ + Len(serviceInfo.Methods)]
                ELSE schemaInfo)

\* buildSchemaInfo, the loop over the enums of one file.
RECURSIVE AddEnums(_, _, _, _)
AddEnums(enums, file, params, schemaInfo) ==
    IF enums = <<>> THEN schemaInfo
    ELSE LET enumInfo == convertEnumToInfo(Head(enums), file)
         IN AddEnums(Tail(enums), file, params,
                IF shouldIncludeEnum(Head(enums), params.EnumTypes)
                THEN [schemaInfo EXCEPT !.Enums = Append(@, enumInfo),
                                        !.Stats.TotalEnums = @ + 1,
                                        !.Stats.TotalValues = @ + Len(enumInfo.Values)]
                ELSE schemaInfo)

\* buildSchemaInfo, the loop over the compiled files.
RECURSIVE BuildFrom(_, _, _)
BuildFrom(files, params, schemaInfo) ==
    IF files = <<>> THEN schemaInfo
    ELSE LET file == Head(files)
         IN BuildFrom(Tail(files), params,
                AddEnums(file.EnumType, file, params,
                    AddServices(file.Service, file, params,
                        AddMessages(file.MessageType, file, params,
                            AddFileInfo(file, params, schemaInfo)))))

\* buildSchemaInfo going through the compiled files from the last to the first.
buildSchemaInfoLastFileFirst(project, params) ==
    LET files == project.CompiledProtos.File
    IN BuildFrom([i \in 1..Len(files) |-> files[Len(files) + 1 - i]], params, EmptySchemaInfo)

\* buildSchemaInfo(project, params): the schema information of the compiled
\* files, taken in their order.
buildSchemaInfo(project, params) ==
    BuildFrom(project.CompiledProtos.File, params, EmptySchemaInfo)

\* The parameters Handle parses out of the request arguments. The arguments
\* may hold other keys (type, name, ...): Handle reads none of them.
ParseParams(args) ==
    [MessageTypes |-> getStringArray(args.message_types),
     ServiceTypes |-> getStringArray(args.service_types),
     EnumTypes |-> getStringArray(args.enum_types),
     IncludeFileInfo |-> args.include_file_info]

\* GetSchemaTool.Handle once the schema information is built.
GetSchemaResponse(schemaInfo) ==
    [isError |-> FALSE, success |-> TRUE,
     message |-> [text |-> "Retrieved schema information: %d messages, %d services, %d enums",
                  nums |-> <<schemaInfo.Stats.TotalMessages,
                             schemaInfo.Stats.TotalServices,
                             schemaInfo.Stats.TotalEnums>>,
                  err |-> ""],
     body |-> [kind |-> "schema", Schema |-> schemaInfo,
               Count |-> schemaInfo.Stats.TotalMessages + schemaInfo.Stats.TotalServices
                         + schemaInfo.Stats.TotalEnums]]

\* GetSchemaTool.Handle without its check of CompiledProtos.
GetSchemaHandleUnchecked(args, project) ==
    IF project.isNil THEN Failure(Msg(NoProjectActivated))
    ELSE GetSchemaResponse(buildSchemaInfo(project, ParseParams(args)))

\* GetSchemaTool.Handle: the response for the request arguments and the
\* manager's project.
GetSchemaHandle(args, project) ==
    IF project.isNil THEN Failure(Msg(NoProjectActivated))
    ELSE IF project.CompiledProtos.isNil THEN Failure(Msg(ProjectNotCompiled))
    ELSE GetSchemaResponse(buildSchemaInfo(project, ParseParams(args)))

----------------------------------------------------------------------------
(* Server runs: requests handled one at a time *)

\* The project_path arguments a caller sends: every directory, no path at
\* all, and a relative path.
PathArgs == Roots \cup {<<>>, <<"b">>}

MessageTypeArgs ==
    {Absent, Other, Arr(<<>>), Arr(<<Str("User")>>), Arr(<<Str("Use")>>),
     Arr(<<Str("USER")>>), Arr(<<Num("42")>>), Arr(<<Str("Product"), Num("42")>>),
     Arr(<<Str("User"), Str("Order")>>), Arr(<<Str("UserProfile"), Str("User")>>)}

ServiceTypeArgs == {Absent, Arr(<<Str("UserService"), Str("Audit")>>)}

EnumTypeArgs == {Absent, Arr(<<Str("Role"), Str("None")>>)}

\* The value of the "type" key of the arguments ("" when the key is absent).
TypeArgs == {"", "service"}

SchemaArgs ==
    [message_types : MessageTypeArgs, service_types : ServiceTypeArgs,
     enum_types : EnumTypeArgs, include_file_info : BOOLEAN, type : TypeArgs]

NoArgs ==
    [message_types |-> Absent, service_types |-> Absent, enum_types |-> Absent,
     include_file_info |-> FALSE, type |-> ""]

NoResp == [isError |-> FALSE, success |-> FALSE, message |-> Msg(""), body |-> NoBody]

ServerInit ==
    /\ current = NoProject
    /\ lastOp = "none"
    /\ lastPath = <<>>
    /\ lastArgs = NoArgs
    /\ lastResp = NoResp
    /\ succeeded = {}
    /\ latest = <<>>
    /\ failed = FALSE

\* tools/call activate_project {project_path}
Activate(projectPath) ==
    LET r == ActivateHandle(projectPath, current)
    IN /\ current' = r.current
       /\ lastOp' = "activate_project"
       /\ lastPath' = projectPath
       /\ lastArgs' = NoArgs
       /\ lastResp' = r.resp
       /\ succeeded' = IF r.resp.success THEN succeeded \cup {Abs(projectPath)}
                       ELSE succeeded
       /\ latest' = IF r.resp.success THEN Abs(projectPath) ELSE latest
       /\ failed' = (failed \/ ~r.resp.success)
       /\ UNCHANGED <<resolverVars, concVars, initVars, hostVars>>

\* tools/call list_services
ListServices ==
    /\ lastResp' = ListServicesHandle(current)
    /\ lastOp' = "list_services"
    /\ lastPath' = <<>>
    /\ lastArgs' = NoArgs
    /\ UNCHANGED <<current, succeeded, latest, failed, resolverVars, concVars, initVars, hostVars>>

\* tools/call get_schema {arguments}
GetSchema(args) ==
    /\ lastResp' = GetSchemaHandle(args, current)
    /\ lastOp' = "get_schema"
    /\ lastPath' = <<>>
    /\ lastArgs' = args
    /\ UNCHANGED <<current, succeeded, latest, failed, resolverVars, concVars, initVars, hostVars>>

----------------------------------------------------------------------------
(* Concurrent runs: one activate_project handler and one query handler, *)
(* each on its own goroutine, stepping through the same project manager *)

\* How many ProtobufProject objects a run allocates at most.
MaxObjects == 3

\* The directories activated in concurrent runs: two that compile and one
\* that does not.
ConcPaths == {RootA, RootB, RootSyntax}

ConcQueries == {"list_services", "get_schema"}

ActIdle == [pc |-> "idle", ref |-> 0]

QryIdle ==
    [pc |-> "idle", op |-> "none", local |-> 0, fresh |-> FALSE, span |-> {},
     view |-> NoProject, resp |-> NoResp]

ConcInit ==
    /\ mgr \in {"ProjectManager", "MCPProjectManager"}
    /\ pm = 0
    /\ heap = <<>>
    /\ act = ActIdle
    /\ qry = QryIdle

\* The project a pointer leads to (NoProject for nil).
ObjectAt(ref) == IF ref = 0 THEN NoProject ELSE heap[ref].obj

\* The handler of a query tool applied to the project it holds.
QueryHandle(op, project) ==
    IF op = "list_services" THEN ListServicesHandle(project)
    ELSE GetSchemaHandle(NoArgs, project)

\* ActivateProjectTool.Handle up to NewProtobufProject: the object is
\* allocated, its CompiledProtos still nil.
ActCreate(projectPath) ==
    /\ act.pc = "idle"
    /\ Len(heap) < MaxObjects
    /\ LET created == NewProtobufProject(Abs(projectPath),
                                         LoadProjectConfig(Abs(projectPath)).config)
       IN /\ ~created.err
          /\ heap' = Append(heap, [obj |-> created.project, returned |-> FALSE])
    /\ act' = [pc |-> "created", ref |-> Len(heap) + 1]
    /\ UNCHANGED <<mgr, pm, qry, serverVars, resolverVars, initVars, hostVars>>

\* protobufProject.CompileProtos(ctx): the field is written on success; on
\* failure the handler returns its failure response.
ActCompile ==
    /\ act.pc = "created"
    /\ LET r == CompileProtos(heap[act.ref].obj)
       IN IF r.err
          THEN /\ act' = ActIdle
               /\ heap' = heap
          ELSE /\ act' = [act EXCEPT !.pc = "compiled"]
               /\ heap' = [heap EXCEPT ![act.ref].obj = r.project]
    /\ UNCHANGED <<mgr, pm, qry, serverVars, resolverVars, initVars, hostVars>>

\* t.projectManager.SetProject(protobufProject)
ActSetProject ==
    /\ act.pc = "compiled"
    /\ pm' = act.ref
    /\ act' = [act EXCEPT !.pc = "published"]
    /\ qry' = IF qry.pc = "got" THEN [qry EXCEPT !.span = @ \cup {act.ref}] ELSE qry
    /\ UNCHANGED <<mgr, heap, serverVars, resolverVars, initVars, hostVars>>

\* The rest of the handler: the statistics are read and the response is
\* returned to the host. A request the host dispatches afterwards is ordered
\* after everything this handler wrote.
ActReturn ==
    /\ act.pc = "published"
    /\ heap' = [heap EXCEPT ![act.ref].returned = TRUE]
    /\ act' = ActIdle
    /\ UNCHANGED <<mgr, pm, qry, serverVars, resolverVars, initVars, hostVars>>

\* project := t.projectManager.GetProject() in a query handler. The pointer
\* is fresh when the activation that stored it is still running.
QryGetProject(op) ==
    /\ qry.pc \in {"idle", "done"}
    /\ qry' = [pc |-> "got", op |-> op, local |-> pm,
               fresh |-> (pm /= 0 /\ ~heap[pm].returned),
               span |-> {pm}, view |-> NoProject, resp |-> NoResp]
    /\ UNCHANGED <<mgr, pm, heap, act, serverVars, resolverVars, initVars, hostVars>>

\* What a read of the object's fields through the pointer may observe.
\* ProjectManager's lock orders the reads after the writes made before
\* SetProject. MCPProjectManager has no lock: nothing orders the query's
\* reads after the activation's write of CompiledProtos, so a read through a
\* fresh pointer observes the written value or the initial nil.
Views(ref, fresh) ==
    IF ref /= 0 /\ fresh /\ mgr = "MCPProjectManager"
    THEN {ObjectAt(ref), [ObjectAt(ref) EXCEPT !.CompiledProtos = NilProtos]}
    ELSE {ObjectAt(ref)}

\* The rest of the query handler: the nil checks, the projection, the response.
QryAnswer ==
    /\ qry.pc = "got"
    /\ \E view \in Views(qry.local, qry.fresh) :
          qry' = [qry EXCEPT !.pc = "done", !.view = view,
                             !.resp = QueryHandle(qry.op, view)]
    /\ UNCHANGED <<mgr, pm, heap, act, serverVars, resolverVars, initVars, hostVars>>

----------------------------------------------------------------------------
(* Init runs: the init command and the onboarding tool on a disk of *)
(* directories, some of which hold a configuration file *)

\* A directory without configuration file.
NoConfig == [exists |-> FALSE, ProtoFiles |-> <<>>, comments |-> FALSE]

\* config.DefaultProjectConfig()
DefaultProjectConfig ==
    [ProtoFiles |-> << <<"p", "r", "o", "t", "o", "/">> \o StarStar \o Slash \o StarDotProto >>]

\* A directory that does not exist: no file can be written into it.
RootMissing == <<"/", "x">>

\* The directories init is run on: the working directory, two more
\* directories, and one that does not exist.
InitDirs == {Cwd, RootA, RootNoConfig, RootMissing}

\* The configurations a user may write into the file by hand.
EditedConfigs ==
    { [exists |-> TRUE, ProtoFiles |-> << StarDotProto >>, comments |-> FALSE],
      [exists |-> TRUE, ProtoFiles |-> <<>>, comments |-> TRUE] }

\* config.ProjectExists(projectRoot) on the disk of an init run.
ProjectExistsIn(disk, projectRoot) == disk[projectRoot].exists

\* config.SaveProjectConfig(projectRoot, config): [disk, err]. The file holds
\* the proto_files list and nothing else; writing fails when the directory
\* does not exist.
SaveProjectConfig(disk, projectRoot, config) ==
    IF projectRoot = RootMissing THEN [disk |-> disk, err |-> TRUE]
    ELSE [disk |-> [disk EXCEPT ![projectRoot] =
                       [exists |-> TRUE, ProtoFiles |-> config.ProtoFiles,
                        comments |-> FALSE]],
          err |-> FALSE]

\* config.SaveProjectConfigWithComments(projectRoot, config): [disk, err].
\* The file holds the proto_files list and help comments.
SaveProjectConfigWithComments(disk, projectRoot, config) ==
    IF projectRoot = RootMissing THEN [disk |-> disk, err |-> TRUE]
    ELSE [disk |-> [disk EXCEPT ![projectRoot] =
                       [exists |-> TRUE, ProtoFiles |-> config.ProtoFiles,
                        comments |-> TRUE]],
          err |-> FALSE]

NoInit == [fn |-> "none", path |-> <<>>, isError |-> FALSE, success |-> FALSE, message |-> ""]

InitIdle ==
    /\ configs = [d \in InitDirs |-> NoConfig]
    /\ iOut = NoInit

\* cli.InitCommand after the existence check: the default configuration is
\* saved.
InitSaved(absPath, saved) ==
    IF saved.err
    THEN [disk |-> saved.disk,
          out |-> [fn |-> "InitCommand", path |-> absPath, isError |-> TRUE,
                   success |-> FALSE, message |-> "failed to initialize project: %w"]]
    ELSE [disk |-> saved.disk,
          out |-> [fn |-> "InitCommand", path |-> absPath, isError |-> FALSE,
                   success |-> TRUE, message |-> ""]]

\* cli.InitCommand saving the default configuration whether or not the
\* directory holds one.
InitCommandHandleOverwriting(args, disk) ==
    LET absPath == IF Len(args) > 0 THEN Abs(args[1]) ELSE Abs(Cwd)
    IN InitSaved(absPath, SaveProjectConfig(disk, absPath, DefaultProjectConfig))

\* cli.InitCommand(args): [disk, out]; a returned error is out.isError.
InitCommandHandle(args, disk) ==
    LET absPath == IF Len(args) > 0 THEN Abs(args[1]) ELSE Abs(Cwd)
    IN IF ProjectExistsIn(disk, absPath)
       THEN [disk |-> disk,
             out |-> [fn |-> "InitCommand", path |-> absPath, isError |-> TRUE,
                      success |-> FALSE, message |-> "project already initialized in %s"]]
       ELSE InitSaved(absPath, SaveProjectConfig(disk, absPath, DefaultProjectConfig))

\* OnboardingTool.Handle after the existence check.
OnboardingSaved(absPath, saved) ==
    IF saved.err
    THEN [disk |-> saved.disk,
          out |-> [fn |-> "onboarding", path |-> absPath, isError |-> FALSE,
                   success |-> FALSE,
                   message |-> "Failed to create configuration file: %v"]]
    ELSE [disk |-> saved.disk,
          out |-> [fn |-> "onboarding", path |-> absPath, isError |-> FALSE,
                   success |-> TRUE, message |-> "onboarding prompt"]]

\* OnboardingTool.Handle: [disk, out] for the project_path argument.
OnboardingHandle(projectPath, disk) ==
    IF projectPath = <<>>
    THEN [disk |-> disk,
          out |-> [fn |-> "onboarding", path |-> <<>>, isError |-> TRUE,
                   success |-> FALSE, message |-> "project_path parameter is required"]]
    ELSE IF ProjectExistsIn(disk, Abs(projectPath))
    THEN [disk |-> disk,
          out |-> [fn |-> "onboarding", path |-> Abs(projectPath), isError |-> FALSE,
                   success |-> FALSE,
                   message |-> "Project already initialized. Configuration file already exists."]]
    ELSE OnboardingSaved(Abs(projectPath),
                         SaveProjectConfigWithComments(disk, Abs(projectPath),
                                                       DefaultProjectConfig))

\* protobuf-mcp init [project-path]
InitCommand(args) ==
    /\ LET r == InitCommandHandle(args, configs)
       IN /\ configs' = r.disk
          /\ iOut' = r.out
    /\ UNCHANGED <<serverVars, resolverVars, concVars, hostVars>>

\* tools/call onboarding
Onboarding(projectPath) ==
    /\ LET r == OnboardingHandle(projectPath, configs)
       IN /\ configs' = r.disk
          /\ iOut' = r.out
    /\ UNCHANGED <<serverVars, resolverVars, concVars, hostVars>>

\* The user edits the configuration file of a directory by hand.
EditConfig(dir, config) ==
    /\ configs[dir].exists
    /\ configs' = [configs EXCEPT ![dir] = config]
    /\ iOut' = [NoInit EXCEPT !.fn = "edit", !.path = dir]
    /\ UNCHANGED <<serverVars, resolverVars, concVars, hostVars>>

----------------------------------------------------------------------------
(* compiler: getMaxParallelism *)

Digits == <<"0", "1", "2", "3", "4", "5", "6", "7", "8", "9">>

IsDigit(c) == \E d \in 1..10 : Digits[d] = c

DigitValue(c) == (CHOOSE d \in 1..10 : Digits[d] = c) - 1

\* A run of digits without its leading zeros ("0" for zero).
RECURSIVE Normal(_)
Normal(ds) ==
    IF Len(ds) > 1 /\ Head(ds) = "0" THEN Normal(Tail(ds)) ELSE ds

\* a <= b for two numbers written without leading zeros.
RECURSIVE DigitsLeqFrom(_, _, _)
DigitsLeqFrom(a, b, i) ==
    IF i > Len(a) THEN TRUE
    ELSE IF a[i] = b[i] THEN DigitsLeqFrom(a, b, i + 1)
    ELSE DigitValue(a[i]) < DigitValue(b[i])

DigitsLeq(a, b) ==
    \/ Len(a) < Len(b)
    \/ Len(a) = Len(b) /\ DigitsLeqFrom(a, b, 1)

\* The largest int and the magnitude of the smallest one (64-bit build). An
\* int is kept as its decimal digits and its sign: these values are beyond
\* the integers the checker computes with.
MaxIntDigits == <<"9", "2", "2", "3", "3", "7", "2", "0", "3", "6", "8", "5", "4", "7", "7", "5", "8", "0", "7">>

MinIntDigits == <<"9", "2", "2", "3", "3", "7", "2", "0", "3", "6", "8", "5", "4", "7", "7", "5", "8", "0", "8">>

\* strconv.Atoi(s): [digits, neg, err]. An optional sign and then decimal
\* digits only, at least one; a value outside the range of int is an error.
Atoi(s) ==
    LET signed == s # <<>> /\ s[1] \in {"+", "-"}
        neg == s # <<>> /\ s[1] = "-"
        body == IF signed THEN Tail(s) ELSE s
        n == Normal(body)
        bad == [digits |-> <<"0">>, neg |-> FALSE, err |-> TRUE]
    IN IF body = <<>> \/ \E i \in 1..Len(body) : ~IsDigit(body[i]) THEN bad
       ELSE IF ~DigitsLeq(n, IF neg THEN MinIntDigits ELSE MaxIntDigits) THEN bad
       ELSE [digits |-> n, neg |-> neg /\ n # <<"0">>, err |-> FALSE]

DefaultParallelism == <<"4">>

\* getMaxParallelism taking whatever number the variable holds.
getMaxParallelismAnyNumber(val) ==
    LET parallelism == Atoi(val)
    IN IF val # <<>> /\ ~parallelism.err THEN parallelism.digits
       ELSE DefaultParallelism

\* getMaxParallelism(), val being what os.Getenv("PROTOBUF_MCP_MAX_PARALLELISM")
\* returns: the empty string when the variable is unset. The result is written
\* in decimal.
getMaxParallelism(val) ==
    LET parallelism == Atoi(val)
    IN IF val # <<>> /\ ~parallelism.err
          /\ ~parallelism.neg /\ parallelism.digits # <<"0">>
       THEN parallelism.digits
       ELSE DefaultParallelism

----------------------------------------------------------------------------
(* Helper runs: the inputs the two helpers are applied to *)

MaxSorted == 3

MaxEnvLen == 3

\* The names a list of proto files may hold: under google/, elsewhere, and
\* names that only look like it.
SortNameUniverse ==
    { <<"g", "o", "o", "g", "l", "e", "/", "a", "p", "i", ".", "p", "r", "o", "t", "o">>,
      <<"g", "o", "o", "g", "l", "e", "/", "t", "y", "p", "e", "/", "d", "a", "t", "e", ".", "p", "r", "o", "t", "o">>,
      <<"a", ".", "p", "r", "o", "t", "o">>,
      <<"g", "o", "o", "g", "l", "e", "a", "p", "i", "s", ".", "p", "r", "o", "t", "o">>,
      <<"x", "/", "g", "o", "o", "g", "l", "e", "/", "b", ".", "p", "r", "o", "t", "o">> }

SortInputs ==
    {[kind |-> "sort", protoFiles |-> fs] : fs \in SeqsUpTo(SortNameUniverse, MaxSorted)}

EnvAlphabet == {"0", "1", "7", "+", "-", "x", " "}

\* What the environment variable may hold: every short string over the
\* alphabet (the empty one is the unset variable too) and the numbers around
\* the largest int.
EnvUniverse ==
    SeqsUpTo(EnvAlphabet, MaxEnvLen)
        \cup {MaxIntDigits, MinIntDigits, <<"-">> \o MinIntDigits, <<"0">> \o MaxIntDigits}

EnvInputs == {[kind |-> "env", val |-> v] : v \in EnvUniverse}

HelperInit ==
    /\ rFiles = {}
    /\ rConfig \in SortInputs \cup EnvInputs
    /\ rOut = NotRun

\* p.sortProtoFilesByDependencies(protoFiles) is called.
RunSortProtoFiles ==
    /\ rOut = NotRun
    /\ rConfig.kind = "sort"
    /\ rOut' = [fn |-> "sortProtoFilesByDependencies",
                files |-> sortProtoFilesByDependencies(rConfig.protoFiles),
                err |-> FALSE]
    /\ UNCHANGED <<rFiles, rConfig, serverVars, concVars, initVars, hostVars>>

\* getMaxParallelism() is called when the compiler is set up.
RunGetMaxParallelism ==
    /\ rOut = NotRun
    /\ rConfig.kind = "env"
    /\ rOut' = [fn |-> "getMaxParallelism",
                MaxParallelism |-> getMaxParallelism(rConfig.val),
                err |-> FALSE]
    /\ UNCHANGED <<rFiles, rConfig, serverVars, concVars, initVars, hostVars>>
----------------------------------------------------------------------------
(* tools: the project state manager and its state file *)

NoStateFile == [exists |-> FALSE, parses |-> FALSE, ProjectRoot |-> <<>>, CompiledProtos |-> <<>>]

\* json.Marshal(project.CompiledProtos): the descriptors written out.
MarshalProtos(protos) == <<[json |-> protos.File]>>

\* SaveProjectState(project): the state file afterwards. Nothing is written
\* for a nil project or one that is not compiled.
SaveProjectState(file, project) ==
    IF project.isNil \/ project.CompiledProtos.isNil THEN file
    ELSE [exists |-> TRUE, parses |-> TRUE, ProjectRoot |-> project.ProjectRoot,
          CompiledProtos |-> MarshalProtos(project.CompiledProtos)]

\* LoadProjectState() giving the project the descriptors of the state file.
LoadProjectStateRestoring(file) ==
    IF ~file.exists THEN [project |-> NoProject, err |-> FALSE]
    ELSE IF ~file.parses \/ file.CompiledProtos = <<>>
         THEN [project |-> NoProject, err |-> TRUE]
    ELSE [project |-> [NoProject EXCEPT !.isNil = FALSE,
                                        !.ProjectRoot = file.ProjectRoot,
                                        !.CompiledProtos =
                                            [isNil |-> FALSE,
                                             File |-> file.CompiledProtos[1].json]],
          err |-> FALSE]

\* LoadProjectState(): [project, err]. No state file is a nil project and no
\* error; a file that is no JSON, or whose compiled_protos are no JSON
\* object, is an error; otherwise the project has the root of the file and
\* nothing else.
LoadProjectState(file) ==
    IF ~file.exists THEN [project |-> NoProject, err |-> FALSE]
    ELSE IF ~file.parses \/ file.CompiledProtos = <<>>
         THEN [project |-> NoProject, err |-> TRUE]
    ELSE [project |-> [NoProject EXCEPT !.isNil = FALSE,
                                        !.ProjectRoot = file.ProjectRoot],
          err |-> FALSE]

NoLoad == [fn |-> "none", project |-> NoProject, err |-> FALSE, resp |-> NoResp]

PsmIdle == [file |-> NoStateFile, out |-> NoLoad]

\* The directories activated in runs with the state manager.
StatePaths == {RootA, RootB, RootSyntax}

\* The queries made on a loaded project.
StateQueries ==
    {[op |-> "list_services", args |-> NoArgs],
     [op |-> "get_schema", args |-> NoArgs],
     [op |-> "get_schema",
      args |-> [NoArgs EXCEPT !.message_types = Arr(<<Str("User")>>)]]}

\* GetProjectStateManager().SaveProjectState(project) on the current project.
SaveState ==
    /\ psm' = [file |-> SaveProjectState(psm.file, current), out |-> NoLoad]
    /\ UNCHANGED <<serverVars, resolverVars, concVars, initVars, rpc, cwd>>

\* The state file is damaged from outside: it is no JSON any more, or its
\* compiled_protos are gone.
DamageState(how) ==
    /\ psm.file.exists
    /\ psm' = [file |-> IF how = "no JSON" THEN [psm.file EXCEPT !.parses = FALSE]
                        ELSE [psm.file EXCEPT !.CompiledProtos = <<>>],
               out |-> NoLoad]
    /\ UNCHANGED <<serverVars, resolverVars, concVars, initVars, rpc, cwd>>

\* GetProjectStateManager().LoadProjectState()
LoadState ==
    /\ LET r == LoadProjectState(psm.file)
       IN psm' = [psm EXCEPT !.out = [fn |-> "LoadProjectState", project |-> r.project,
                                      err |-> r.err, resp |-> NoResp]]
    /\ UNCHANGED <<serverVars, resolverVars, concVars, initVars, rpc, cwd>>

\* A query handler runs on the project LoadProjectState returned.
QueryLoaded(q) ==
    /\ psm.out.fn \in {"LoadProjectState", "query"}
    /\ ~psm.out.err
    /\ psm' = [psm EXCEPT !.out.fn = "query",
                          !.out.resp = IF q.op = "list_services"
                                       THEN ListServicesHandle(psm.out.project)
                                       ELSE GetSchemaHandle(q.args, psm.out.project)]
    /\ UNCHANGED <<serverVars, resolverVars, concVars, initVars, rpc, cwd>>
----------------------------------------------------------------------------
(* mcp: the stdio JSON-RPC server (MCPServer.Run) *)

\* How many values the input holds at most.
MaxRequests == 2

\* The largest whole number below which every whole number is a float64, and
\* the number after it, which is not.
MaxExactDigits == <<"9", "0", "0", "7", "1", "9", "9", "2", "5", "4", "7", "4", "0", "9", "9", "2">>

InexactDigits == <<"9", "0", "0", "7", "1", "9", "9", "2", "5", "4", "7", "4", "0", "9", "9", "3">>

\* The float64 nearest to a whole number written in decimal: encoding/json
\* decodes a number into an interface{} as a float64.
NearestFloat64(digits) ==
    IF DigitsLeq(digits, MaxExactDigits) THEN digits
    ELSE IF digits = InexactDigits THEN MaxExactDigits
    ELSE digits

\* The "id" of a request as it is written in the input.
NumberID(digits) == [kind |-> "number", text |-> digits]
StringID(text) == [kind |-> "string", text |-> text]
NullID == [kind |-> "null", text |-> <<>>]

\* The Go value the decoder stores in JSONRPCRequest.ID (an interface{}).
DecodeID(id) ==
    IF id.kind = "number" THEN [type |-> "float64", value |-> NearestFloat64(id.text)]
    ELSE IF id.kind = "string" THEN [type |-> "string", value |-> id.text]
    ELSE [type |-> "nil", value |-> <<>>]

\* The "id" the encoder writes for such a value.
EncodeID(v) ==
    IF v.type = "float64" THEN NumberID(v.value)
    ELSE IF v.type = "string" THEN StringID(v.value)
    ELSE NullID

RpcIDs == {NumberID(<<"1">>), NumberID(InexactDigits), StringID(<<"a">>), NullID}

\* What a request asks for: its method, and for tools/call whether the params
\* parse, whether the tool is registered and whether its Execute fails.
RpcCalls ==
    {[Method |-> "initialize", params |-> "ok", tool |-> "", fails |-> FALSE],
     [Method |-> "initialize", params |-> "invalid", tool |-> "", fails |-> FALSE],
     [Method |-> "tools/list", params |-> "ok", tool |-> "", fails |-> FALSE],
     [Method |-> "tools/call", params |-> "invalid", tool |-> "", fails |-> FALSE],
     [Method |-> "tools/call", params |-> "ok", tool |-> "unknown", fails |-> FALSE],
     [Method |-> "tools/call", params |-> "ok", tool |-> "list_services", fails |-> TRUE],
     [Method |-> "tools/call", params |-> "ok", tool |-> "list_services", fails |-> FALSE],
     [Method |-> "ping", params |-> "ok", tool |-> "", fails |-> FALSE]}

\* The values the input may hold: requests, text that is no JSON, and a value
\* the input ends in the middle of.
RpcValues ==
    {[kind |-> "request", ID |-> id, call |-> c] : id \in RpcIDs, c \in RpcCalls}
        \cup {[kind |-> k, ID |-> NullID,
               call |-> [Method |-> "", params |-> "ok", tool |-> "", fails |-> FALSE]] :
                  k \in {"no JSON", "cut short"}}

RegisteredTools == {"activate_project", "list_services", "get_schema"}

RpcResult(id) == [ID |-> EncodeID(id), Error |-> 0]

RpcError(id, code) == [ID |-> EncodeID(id), Error |-> code]

\* handleInitialize(request)
handleInitialize(request) ==
    IF request.call.params = "invalid" THEN RpcError(request.ID, -32602)
    ELSE RpcResult(request.ID)

\* handleToolsList(request)
handleToolsList(request) == RpcResult(request.ID)

\* handleToolsCall(ctx, request)
handleToolsCall(request) ==
    IF request.call.params = "invalid" THEN RpcError(request.ID, -32602)
    ELSE IF request.call.tool \notin RegisteredTools THEN RpcError(request.ID, -32601)
    ELSE IF request.call.fails THEN RpcError(request.ID, -32603)
    ELSE RpcResult(request.ID)

\* handleRequest(ctx, request): the response, which carries request.ID.
handleRequest(request) ==
    IF request.call.Method = "initialize" THEN handleInitialize(request)
    ELSE IF request.call.Method = "tools/list" THEN handleToolsList(request)
    ELSE IF request.call.Method = "tools/call" THEN handleToolsCall(request)
    ELSE RpcError(request.ID, -32601)

NoRequest ==
    [ID |-> [type |-> "nil", value |-> <<>>],
     call |-> [Method |-> "", params |-> "ok", tool |-> "", fails |-> FALSE]]

\* Run has not been called.
RpcIdle ==
    [pc |-> "idle", input |-> <<>>, stdout |-> "open", ctxDone |-> FALSE, read |-> <<>>,
     request |-> NoRequest, output |-> <<>>, why |-> "", ret |-> ""]

\* Run is called on an input of some values, with a standard output that
\* takes what is written to it or does not.
RpcInit ==
    rpc \in {[RpcIdle EXCEPT !.pc = "select", !.input = in, !.stdout = out] :
                in \in SeqsUpTo(RpcValues, MaxRequests), out \in {"open", "broken"}}

Returned(why, ret) == [rpc EXCEPT !.pc = "returned", !.why = why, !.ret = ret]

\* One turn of the loop up to the call of handleRequest: the context is
\* looked at, then the next value is decoded.
RunDecode ==
    /\ rpc.pc = "select"
    /\ rpc' = IF rpc.ctxDone THEN Returned("ctx", "ctx.Err()")
              ELSE IF rpc.input = <<>> THEN Returned("EOF", "nil")
              ELSE IF Head(rpc.input).kind # "request"
                   THEN Returned("decode", "failed to decode JSON-RPC request: %w")
              ELSE [rpc EXCEPT !.pc = "handle",
                               !.input = Tail(@),
                               !.read = Append(@, Head(rpc.input)),
                               !.request = [ID |-> DecodeID(Head(rpc.input).ID),
                                            call |-> Head(rpc.input).call]]
    /\ UNCHANGED <<serverVars, resolverVars, concVars, initVars, psm, cwd>>

\* The rest of the turn: the request is handled and the response encoded.
RunRespond ==
    /\ rpc.pc = "handle"
    /\ rpc' = IF rpc.stdout = "broken"
              THEN Returned("encode", "failed to encode JSON-RPC response: %w")
              ELSE [rpc EXCEPT !.pc = "select",
                               !.output = Append(@, handleRequest(rpc.request))]
    /\ UNCHANGED <<serverVars, resolverVars, concVars, initVars, psm, cwd>>

\* The caller of Run cancels the context.
CancelContext ==
    /\ rpc.pc \in {"select", "handle"}
    /\ ~rpc.ctxDone
    /\ rpc' = [rpc EXCEPT !.ctxDone = TRUE]
    /\ UNCHANGED <<serverVars, resolverVars, concVars, initVars, psm, cwd>>
----------------------------------------------------------------------------
(* tools: the older revision, whose list_services compiles on every query *)

\* filepath.Abs(path) in a process whose working directory is dir.
AbsIn(dir, path) == IF IsAbs(path) THEN Clean(path) ELSE Join(dir, path)

\* compiler.CompileProtos of the older revision, the working directory it
\* leaves: os.Chdir(rootDir) is reached unless the function returned at one of
\* its first two checks, and nothing changes the directory back.
Chdir008(dir, rootDir, files) ==
    IF files.err /\ files.msg \in {"failed to resolve proto files: %w",
                                   "no proto files found in configured paths"}
    THEN dir ELSE rootDir

\* (p *ProtobufProject) CompileProtos(ctx) of the older revision: [files, cwd],
\* the result of the compilation and the working directory afterwards. The
\* project keeps nothing of the result.
CompiledIn008(p, dir, files) ==
    [files |-> files, cwd |-> Chdir008(dir, p.ProjectRoot, files)]

ProjectCompileProtos008(p, dir) ==
    CompiledIn008(p, dir, CompileProtos008(p.ProjectRoot, p.Config.ProtoFiles,
                                           p.Config.ImportPaths))

\* ListServicesTool.convertServiceToInfo of the older revision, for a service
\* of the file that declares it.
listConvertServiceToInfo008(file, service) ==
    [Name |-> service.Name, FullName |-> <<".", file.Package, ".", service.Name>>,
     Methods |-> service.Method, Package |-> file.Package, File |-> file.Name,
     Description |-> ""]

\* project.GetServices(files) followed by the conversion of each service.
ServiceInfos008(files) ==
    Flatten([i \in 1..Len(files) |->
                [k \in 1..Len(files[i].Service) |->
                    listConvertServiceToInfo008(files[i], files[i].Service[k])]])

\* ListServicesTool.Handle of the older revision once the files are converted.
ListServicesFound008(serviceInfos) ==
    [isError |-> FALSE, success |-> TRUE,
     message |-> [text |-> "Found %d services", nums |-> <<Len(serviceInfos)>>, err |-> ""],
     body |-> [kind |-> "services", Services |-> serviceInfos, Count |-> Len(serviceInfos)]]

\* ListServicesTool.Handle of the older revision from CompileProtos on.
ListServicesCompiled008(c) ==
    [resp |-> IF c.files.err
              THEN Failure([text |-> "Failed to compile proto files: %v",
                            nums |-> <<>>, err |-> c.files.msg])
              ELSE ListServicesFound008(ServiceInfos008(c.files.protos.File)),
     cwd |-> c.cwd]

\* ListServicesTool.Handle of the older revision: [resp, cwd] for the current
\* project and the working directory before the call.
ListServicesHandle008(project, dir) ==
    IF project.isNil THEN [resp |-> Failure(Msg(NoProjectActivated)), cwd |-> dir]
    ELSE ListServicesCompiled008(ProjectCompileProtos008(project, dir))

\* The totals activate_project reports for a compilation that succeeded.
ActivateStats008(absPath, compiled) ==
    ActivateStats(absPath, compiled, GetServices(compiled), GetMessages(compiled),
                  GetEnums(compiled))

\* activate_project of the older revision from CompileProtos on:
\* [current, resp, cwd]. The project becomes current only when the
\* compilation that reports its totals succeeded.
ActivateCompiled008(absPath, project, c, cur) ==
    IF c.files.err
    THEN [current |-> cur,
          resp |-> Failure([text |-> "Failed to compile proto files: %v",
                            nums |-> <<>>, err |-> c.files.msg]),
          cwd |-> c.cwd]
    ELSE [current |-> project,
          resp |-> ActivateStats008(absPath,
                                    [project EXCEPT !.CompiledProtos = c.files.protos]),
          cwd |-> c.cwd]

\* activate_project of the older revision from NewProtobufProject on.
ActivateCreated008(absPath, created, cur, dir) ==
    IF created.err THEN
        [current |-> cur,
         resp |-> Failure([text |-> "Failed to create protobuf project: %v",
                           nums |-> <<>>, err |-> "failed to resolve proto files: %w"]),
         cwd |-> dir]
    ELSE ActivateCompiled008(absPath, created.project,
                             ProjectCompileProtos008(created.project, dir), cur)

\* activate_project of the older revision from LoadProjectConfig on.
ActivateLoaded008(absPath, loaded, cur, dir) ==
    IF loaded.err THEN
        [current |-> cur, cwd |-> dir,
         resp |-> Failure([text |-> "Failed to load project configuration: %v",
                           nums |-> <<>>, err |-> "failed to parse project config: %w"])]
    ELSE ActivateCreated008(absPath, NewProtobufProject(absPath, loaded.config), cur, dir)

\* activate_project of the older revision from the absolute path on.
ActivateAbs008(absPath, cur, dir) ==
    IF ~ProjectExists(absPath) THEN
        [current |-> cur, cwd |-> dir,
         resp |-> Failure(Msg("Project not initialized. Run 'go run cmd/protobuf-mcp/main.go init' first."))]
    ELSE ActivateLoaded008(absPath, LoadProjectConfig(absPath), cur, dir)

\* activate_project of the older revision: [current, resp, cwd] from the
\* project_path argument, the current project and the working directory.
ActivateHandle008(projectPath, cur, dir) ==
    IF projectPath = <<>> THEN
        [current |-> cur, cwd |-> dir,
         resp |-> NewToolResultError("project_path parameter is required")]
    ELSE ActivateAbs008(AbsIn(dir, projectPath), cur, dir)

\* tools/call activate_project {project_path}, older revision
Activate008(projectPath) ==
    LET r == ActivateHandle008(projectPath, current, cwd)
    IN /\ current' = r.current
       /\ cwd' = r.cwd
       /\ lastOp' = "activate_project"
       /\ lastPath' = projectPath
       /\ lastArgs' = NoArgs
       /\ lastResp' = r.resp
       /\ succeeded' = IF r.resp.success THEN succeeded \cup {AbsIn(cwd, projectPath)}
                       ELSE succeeded
       /\ latest' = IF r.resp.success THEN AbsIn(cwd, projectPath) ELSE latest
       /\ failed' = (failed \/ ~r.resp.success)
       /\ UNCHANGED <<resolverVars, concVars, initVars, psm, rpc>>

\* tools/call list_services, older revision
ListServices008 ==
    LET r == ListServicesHandle008(current, cwd)
    IN /\ lastResp' = r.resp
       /\ cwd' = r.cwd
       /\ lastOp' = "list_services"
       /\ lastPath' = <<>>
       /\ lastArgs' = NoArgs
       /\ UNCHANGED <<current, succeeded, latest, failed, resolverVars, concVars,
                      initVars, psm, rpc>>

----------------------------------------------------------------------------
(* Specifications *)

\* The resolver is not run.
ResolverIdle ==
    /\ rFiles = {}
    /\ rConfig = [kind |-> "proto_files", ProtoFiles |-> <<>>]
    /\ rOut = NotRun

\* No concurrent handler runs.
ConcIdle ==
    /\ mgr = "ProjectManager"
    /\ pm = 0
    /\ heap = <<>>
    /\ act = ActIdle
    /\ qry = QryIdle

\* The state manager and the stdio server are not used, and the process is
\* in the directory it was started in.
HostIdle ==
    /\ psm = PsmIdle
    /\ rpc = RpcIdle
    /\ cwd = Cwd

Init == ServerInit /\ ResolverIdle /\ ConcIdle /\ InitIdle /\ HostIdle

Next ==
    \/ \E projectPath \in PathArgs : Activate(projectPath)
    \/ ListServices
    \/ \E args \in SchemaArgs : GetSchema(args)

\* The server handling one request at a time.
Spec == Init /\ [][Next]_vars

InitResolve == ServerInit /\ ResolverInit /\ ConcIdle /\ InitIdle /\ HostIdle

NextResolve ==
    \/ RunResolveProtoFiles
    \/ RunFindProtoFiles

\* One call of a path resolver on some disk and some configuration.
SpecResolve == InitResolve /\ [][NextResolve]_vars

InitConc == ServerInit /\ ResolverIdle /\ ConcInit /\ InitIdle /\ HostIdle

NextConc ==
    \/ \E projectPath \in ConcPaths : ActCreate(projectPath)
    \/ ActCompile
    \/ ActSetProject
    \/ ActReturn
    \/ \E op \in ConcQueries : QryGetProject(op)
    \/ QryAnswer

\* Handlers running concurrently.
SpecConc == InitConc /\ [][NextConc]_vars

InitCompile == ServerInit /\ CompilerInit /\ ConcIdle /\ InitIdle /\ HostIdle

NextCompile ==
    \/ RunCompileProtos
    \/ RunProjectCompileProtos
    \/ RunCompileProtos008
    \/ RunCompileProtosAgain
    \/ RunCompileProtosPaths

\* One call of a compiler on some files or patterns and some import paths.
SpecCompile == InitCompile /\ [][NextCompile]_vars

InitHelpers == ServerInit /\ HelperInit /\ ConcIdle /\ InitIdle /\ HostIdle

NextHelpers ==
    \/ RunSortProtoFiles
    \/ RunGetMaxParallelism

SpecHelpers == InitHelpers /\ [][NextHelpers]_vars

InitState == ServerInit /\ ResolverIdle /\ ConcIdle /\ InitIdle /\ HostIdle

NextState ==
    \/ \E projectPath \in StatePaths : Activate(projectPath)
    \/ SaveState
    \/ \E how \in {"no JSON", "no compiled_protos"} : DamageState(how)
    \/ LoadState
    \/ \E q \in StateQueries : QueryLoaded(q)

SpecState == InitState /\ [][NextState]_vars

InitRun ==
    /\ ServerInit /\ ResolverIdle /\ ConcIdle /\ InitIdle
    /\ psm = PsmIdle
    /\ RpcInit
    /\ cwd = Cwd

NextRun ==
    \/ RunDecode
    \/ RunRespond
    \/ CancelContext

SpecRun == InitRun /\ [][NextRun]_vars

\* The project paths of the calls: every root, and paths relative to the
\* working directory of the moment.
PathArgs008 == Roots \cup {<<>>, <<"a">>, <<"b">>, <<".", ".", "/", "b">>, Dot}

InitRecompile == ServerInit /\ ResolverIdle /\ ConcIdle /\ InitIdle /\ HostIdle

NextRecompile ==
    \/ \E projectPath \in PathArgs008 : Activate008(projectPath)
    \/ ListServices008

SpecRecompile == InitRecompile /\ [][NextRecompile]_vars

InitInit == ServerInit /\ ResolverIdle /\ ConcIdle /\ InitIdle /\ HostIdle

NextInit ==
    \/ \E args \in {<<>>} \cup {<<d>> : d \in InitDirs} : InitCommand(args)
    \/ \E projectPath \in InitDirs \cup {<<>>} : Onboarding(projectPath)
    \/ \E dir \in InitDirs, config \in EditedConfigs : EditConfig(dir, config)

\* Initialisations of directories, by the command and by the tool.
SpecInit == InitInit /\ [][NextInit]_vars

----------------------------------------------------------------------------
(* Properties of the server handling one request at a time *)

Queries == {"list_services", "get_schema"}

\* C1: while no activate_project call has succeeded, however many have failed,
\* list_services and get_schema return a normal result (no tool error) with
\* success=false and the message "No project activated. Use activate_project
\* first.".
C1_NoProjectGuard ==
    (succeeded = {} /\ lastOp \in Queries) =>
        /\ ~lastResp.isError
        /\ ~lastResp.success
        /\ lastResp.message.text = "No project activated. Use activate_project first."
        /\ lastResp.message.nums = <<>>
        /\ lastResp.message.err = ""

\* A query answered after a failed activation and before any successful one.
C1_Witness ==
    /\ succeeded = {}
    /\ failed
    /\ lastOp = "get_schema"
    /\ lastArgs.include_file_info
    /\ ~lastResp.success

\* C2: an activate_project call that fails leaves the current project as it
\* was: the same project with the same compiled artifact, or none.
C2_FailedActivateKeepsCurrent ==
    [][(lastOp' = "activate_project" /\ ~lastResp'.success) => current' = current]_vars

\* A compilation failure while project /a is current: /a is still current,
\* compiled.
C2_Witness ==
    /\ lastOp = "activate_project"
    /\ lastPath = RootSyntax
    /\ ~lastResp.success
    /\ lastResp.message.text = "Failed to compile proto files: %v"
    /\ ~current.isNil
    /\ current.ProjectRoot = RootA
    /\ ~current.CompiledProtos.isNil

\* The project a successful activation of a directory builds.
Activated(root) == ActivateHandle(root, NoProject).current

\* The regular files below a directory.
FilesUnder(root) == {f \in ServerDisk : HasPrefix(f, root \o Slash)}

\* The names a directory's files declare, per kind.
DeclaredMessages(root) ==
    UNION {{Source(f).MessageType[i].Name : i \in 1..Len(Source(f).MessageType)} : f \in FilesUnder(root)}

DeclaredServices(root) ==
    UNION {{Source(f).Service[i].Name : i \in 1..Len(Source(f).Service)} : f \in FilesUnder(root)}

DeclaredEnums(root) ==
    UNION {{Source(f).EnumType[i].Name : i \in 1..Len(Source(f).EnumType)} : f \in FilesUnder(root)}

\* The names of the items of a response list.
NamesOf(infos) == {infos[i].Name : i \in 1..Len(infos)}

\* The names a query response carries, per kind.
RespServices(resp) ==
    IF resp.body.kind = "services" THEN NamesOf(resp.body.Services)
    ELSE IF resp.body.kind = "schema" THEN NamesOf(resp.body.Schema.Services)
    ELSE {}

RespMessages(resp) ==
    IF resp.body.kind = "schema" THEN NamesOf(resp.body.Schema.Messages) ELSE {}

RespEnums(resp) ==
    IF resp.body.kind = "schema" THEN NamesOf(resp.body.Schema.Enums) ELSE {}

\* C3: one project is current at a time and a successful activate_project
\* replaces it: the current project is the one the latest successful
\* activation built, every later query is answered from that project's
\* artifact alone, and no declaration of another project appears in it.
C3_LatestActivationAnswers ==
    latest /= <<>> =>
        /\ current = Activated(latest)
        /\ lastOp = "list_services" => lastResp = ListServicesHandle(Activated(latest))
        /\ lastOp = "get_schema" => lastResp = GetSchemaHandle(lastArgs, Activated(latest))
        /\ lastOp \in Queries =>
              /\ lastResp.success
              /\ RespServices(lastResp) \subseteq DeclaredServices(latest)
              /\ RespMessages(lastResp) \subseteq DeclaredMessages(latest)
              /\ RespEnums(lastResp) \subseteq DeclaredEnums(latest)

\* /a was activated, then /b: list_services answers with the services of /b.
C3_Witness ==
    /\ RootA \in succeeded
    /\ latest = RootB
    /\ lastOp = "list_services"
    /\ lastResp.success
    /\ RespServices(lastResp) = {"OrderService", "Audit"}


RECURSIVE SumLen(_, _)
\* The sum of the lengths of one field over the items of a list.
SumLen(infos, field) ==
    IF infos = <<>> THEN 0 ELSE Len(Head(infos)[field]) + SumLen(Tail(infos), field)

\* C5: in every successful get_schema response each Stats counter equals
\* the size of the emitted collection it summarises: the four list lengths,
\* and the summed numbers of fields, methods and enum values.
C5_StatsMatchEmitted ==
    (lastOp = "get_schema" /\ lastResp.success) =>
        LET schema == lastResp.body.Schema
        IN /\ schema.Stats.TotalMessages = Len(schema.Messages)
           /\ schema.Stats.TotalServices = Len(schema.Services)
           /\ schema.Stats.TotalEnums = Len(schema.Enums)
           /\ schema.Stats.TotalFiles = Len(schema.Files)
           /\ schema.Stats.TotalFields = SumLen(schema.Messages, "Fields")
           /\ schema.Stats.TotalMethods = SumLen(schema.Services, "Methods")
           /\ schema.Stats.TotalValues = SumLen(schema.Enums, "Values")

\* A filtered get_schema on /a without file information: one message of
\* two fields, no file listed.
C5_Witness ==
    /\ lastOp = "get_schema"
    /\ lastResp.success
    /\ latest = RootA
    /\ ~lastArgs.include_file_info
    /\ lastArgs.message_types = Arr(<<Str("User")>>)
    /\ lastResp.body.Schema.Stats.TotalMessages = 1
    /\ lastResp.body.Schema.Stats.TotalFields = 2
    /\ lastResp.body.Schema.Stats.TotalFiles = 0
    /\ lastResp.body.Schema.Stats.TotalMethods = 2

\* The entries of the caller's list for one kind, as sent.
ListEntries(arg) == IF arg.kind = "array" THEN arg.items ELSE <<>>

\* A declaration's short name equals an entry of the list as sent.
EqualsSomeEntry(name, arg) ==
    \E i \in 1..Len(ListEntries(arg)) :
        ListEntries(arg)[i].isString /\ ListEntries(arg)[i].v = name

\* The string entries of the caller's list for one kind.
StringEntries(arg) ==
    {ListEntries(arg)[i].v : i \in {k \in 1..Len(ListEntries(arg)) : ListEntries(arg)[k].isString}}

RECURSIVE NamesWhere(_, _, _)
\* The names of the declarations, in order, kept when all are wanted or when
\* the name is in the set.
NamesWhere(decls, all, names) ==
    IF decls = <<>> THEN <<>>
    ELSE (IF all \/ Head(decls).Name \in names THEN <<Head(decls).Name>> ELSE <<>>)
         \o NamesWhere(Tail(decls), all, names)

\* The names of the items of a response list, in order.
NameSeq(infos) == [i \in 1..Len(infos) |-> infos[i].Name]

\* C6: per kind, a non-empty list emits exactly the declarations
\* whose short name equals some entry, an empty or absent list emits all of
\* them, and the list of one kind does not bear on the other kinds.
C6_ExactAllowList ==
    (lastOp = "get_schema" /\ lastResp.success) =>
        LET schema == lastResp.body.Schema
            p == Activated(latest)
        IN /\ NameSeq(schema.Messages) =
                 NamesWhere(GetMessages(p).list, Len(ListEntries(lastArgs.message_types)) = 0,
                     {n \in DeclaredMessages(latest) : EqualsSomeEntry(n, lastArgs.message_types)})
           /\ NameSeq(schema.Services) =
                 NamesWhere(GetServices(p).list, Len(ListEntries(lastArgs.service_types)) = 0,
                     {n \in DeclaredServices(latest) : EqualsSomeEntry(n, lastArgs.service_types)})
           /\ NameSeq(schema.Enums) =
                 NamesWhere(GetEnums(p).list, Len(ListEntries(lastArgs.enum_types)) = 0,
                     {n \in DeclaredEnums(latest) : EqualsSomeEntry(n, lastArgs.enum_types)})

\* What get_schema does with the lists: per kind, when the list holds at
\* least one string entry the declarations emitted are exactly those whose
\* short name equals a string entry (case-sensitive, whole name); when it
\* holds none (absent, no array, empty, or only entries that are not strings)
\* every declaration of the kind is emitted; the list of one kind does not
\* bear on the other kinds.
StringEntriesFilter ==
    (lastOp = "get_schema" /\ lastResp.success) =>
        LET schema == lastResp.body.Schema
            p == Activated(latest)
        IN /\ NameSeq(schema.Messages) =
                 NamesWhere(GetMessages(p).list, StringEntries(lastArgs.message_types) = {},
                            StringEntries(lastArgs.message_types))
           /\ NameSeq(schema.Services) =
                 NamesWhere(GetServices(p).list, StringEntries(lastArgs.service_types) = {},
                            StringEntries(lastArgs.service_types))
           /\ NameSeq(schema.Enums) =
                 NamesWhere(GetEnums(p).list, StringEntries(lastArgs.enum_types) = {},
                            StringEntries(lastArgs.enum_types))

\* message_types = ["Product", 42] with a service filter on /a: the one
\* message Product, the one service UserService and all enums.
StringEntriesFilterCase ==
    /\ lastOp = "get_schema"
    /\ lastResp.success
    /\ latest = RootA
    /\ lastArgs.message_types = Arr(<<Str("Product"), Num("42")>>)
    /\ lastArgs.service_types /= Absent
    /\ lastArgs.enum_types = Absent
    /\ NameSeq(lastResp.body.Schema.Messages) = <<"Product">>
    /\ NameSeq(lastResp.body.Schema.Services) = <<"UserService">>
    /\ NameSeq(lastResp.body.Schema.Enums) = <<"Status", "Role">>

\* C7: get_schema with type="service" on an activated project that defines
\* messages, services and enums returns success with at least one service
\* and no message.
C7_KindFilter ==
    (/\ lastOp = "get_schema"
     /\ lastArgs.type = "service"
     /\ ~current.isNil
     /\ GetMessages(current).list /= <<>>
     /\ GetServices(current).list /= <<>>
     /\ GetEnums(current).list /= <<>>) =>
        /\ lastResp.success
        /\ Len(lastResp.body.Schema.Services) >= 1
        /\ Len(lastResp.body.Schema.Messages) = 0

----------------------------------------------------------------------------
(* Properties of the path resolvers *)

\* The resolver has returned a list.
Resolved == rOut.fn /= "none" /\ ~rOut.err

\* C8: each file path appears at most once in the result of resolution,
\* whatever the patterns, the search paths and the disk.
C8_NoDuplicates ==
    Resolved => \A i, j \in 1..Len(rOut.files) : i /= j => rOut.files[i] /= rOut.files[j]

\* The files the source patterns of findProtoFiles match: below each search
\* path, <path>/**/*.proto and <path>/*.proto.
Candidates(ProjectRoot, Config, files) ==
    LET searchPaths == Config.ProtoPaths \o Config.IncludePaths
        globbed(i, tail) == Glob(Join(Join(ProjectRoot, searchPaths[i]), tail), files).matches
    IN UNION {{globbed(i, Join(StarStar, StarDotProto))[k] :
                  k \in 1..Len(globbed(i, Join(StarStar, StarDotProto)))}
              \cup {globbed(i, StarDotProto)[k] : k \in 1..Len(globbed(i, StarDotProto))} :
              i \in 1..Len(searchPaths)}

\* Some configured ignore pattern matches the base name of the path.
BaseIgnored(path, IgnoredPatterns) ==
    \E i \in 1..Len(IgnoredPatterns) : Match(IgnoredPatterns[i], Base(path)).matched

\* C9: of the files the source patterns match, those handed on are exactly
\* the ones whose base name matches no ignore pattern; tmp/** does not
\* exclude tmp/test.proto, *_test.proto excludes user_test.proto in every
\* directory.
C9_IgnoreByBaseName ==
    (rOut.fn = "findProtoFiles" /\ ~rOut.err) =>
        LET cands == Candidates(ResolverRoot, rConfig, rFiles)
            out == {rOut.files[i] : i \in 1..Len(rOut.files)}
            ignores == {rConfig.IgnoredPatterns[i] : i \in 1..Len(rConfig.IgnoredPatterns)}
        IN /\ out = {Rel(ResolverRoot, c).path :
                        c \in {c \in cands : ~BaseIgnored(c, rConfig.IgnoredPatterns)}}
           /\ (ignores = {<<"t", "m", "p", "/", "*", "*">>} /\ <<"/", "r", "/", "t", "m", "p", "/", "t", "e", "s", "t", ".", "p", "r", "o", "t", "o">> \in cands)
                  => <<"t", "m", "p", "/", "t", "e", "s", "t", ".", "p", "r", "o", "t", "o">> \in out
           /\ <<"*", "_", "t", "e", "s", "t", ".", "p", "r", "o", "t", "o">> \in ignores
                  => \A f \in out : Base(f) /= <<"u", "s", "e", "r", "_", "t", "e", "s", "t", ".", "p", "r", "o", "t", "o">>

\* Both ignore patterns configured over a disk holding every file: the test
\* files are dropped from both directories, tmp/test.proto is kept.
C9_Witness ==
    /\ rOut.fn = "findProtoFiles"
    /\ ~rOut.err
    /\ rFiles = FileUniverse
    /\ rConfig.IgnoredPatterns = << <<"*", "_", "t", "e", "s", "t", ".", "p", "r", "o", "t", "o">>, <<"t", "m", "p", "/", "*", "*">> >>
    /\ <<"/", "r", "/", "u", "s", "e", "r", "_", "t", "e", "s", "t", ".", "p", "r", "o", "t", "o">> \in Candidates(ResolverRoot, rConfig, rFiles)
    /\ <<"/", "r", "/", "s", "u", "b", "/", "u", "s", "e", "r", "_", "t", "e", "s", "t", ".", "p", "r", "o", "t", "o">> \in Candidates(ResolverRoot, rConfig, rFiles)
    /\ \E i \in 1..Len(rOut.files) : rOut.files[i] = <<"t", "m", "p", "/", "t", "e", "s", "t", ".", "p", "r", "o", "t", "o">>
    /\ \A i \in 1..Len(rOut.files) : Base(rOut.files[i]) /= <<"u", "s", "e", "r", "_", "t", "e", "s", "t", ".", "p", "r", "o", "t", "o">>

\* The rearrangements of a sequence.
Rearrangements(seq) ==
    {[i \in 1..Len(seq) |-> seq[f[i]]] :
        f \in {g \in [1..Len(seq) -> 1..Len(seq)] :
                  \A i, j \in 1..Len(seq) : i /= j => g[i] /= g[j]}}

\* C10: the resolved list is in lexicographic order of the absolute paths,
\* and the same sequence results from every rearrangement of the patterns.
C10_SortedWhateverTheOrder ==
    (rOut.fn = "ResolveProtoFiles" /\ ~rOut.err) =>
        /\ \A i, j \in 1..Len(rOut.files) : i < j => ~StrLess(rOut.files[j], rOut.files[i])
        /\ \A q \in Rearrangements(rConfig.ProtoFiles) :
              ResolveProtoFiles(q, ResolverRoot, rFiles).files = rOut.files

----------------------------------------------------------------------------
(* Properties of handlers running concurrently *)

\* C4: with activate_project running concurrently with queries, every query
\* is answered entirely from one project, the one current before the
\* re-activation or the newly activated one, under every interleaving: the
\* response is the one the handler gives for one of the projects that were
\* current while the query ran.
C4_ReadersSeeOldOrNew ==
    qry.pc = "done" =>
        \E ref \in qry.span : qry.resp = QueryHandle(qry.op, ObjectAt(ref))

\* With the locking manager of the tools package the readers are atomic.
LockedReadersAtomic == mgr = "ProjectManager" => C4_ReadersSeeOldOrNew

\* A query that overlapped a re-activation and was answered from the new project.
OverlappingQueryAnswered ==
    /\ qry.pc = "done"
    /\ qry.fresh
    /\ qry.resp.success
    /\ Len(heap) >= 2
----------------------------------------------------------------------------
(* Properties of the compiler runs *)

CompileRuns == {"CompileProtos", "ProtobufProject.CompileProtos", "CompileProtos008"}

\* A compiler was run and got as far as looking at the files.
CompilerReached ==
    /\ rOut.fn \in CompileRuns
    /\ rOut.msg \notin {"failed to resolve proto files: %w",
                        "no proto files found in configured paths"}

\* A relative path whose first segment is "..".
EscapesUpward(rel) == Segs(rel) # <<>> /\ Head(Segs(rel)) = DotDot

LiesUnder(file, root) ==
    LET r == Rel(root, file) IN ~r.err /\ ~EscapesUpward(r.path)

Homeless(file, roots) == \A k \in 1..Len(roots) : ~LiesUnder(file, roots[k])

\* The path of a file relative to the first root it lies under.
HomePath(file, roots) ==
    LET hits == {k \in 1..Len(roots) : LiesUnder(file, roots[k])}
    IN Rel(roots[CHOOSE i \in hits : \A k \in hits : i <= k], file).path

HomelessSources == {i \in 1..Len(rOut.sources) : Homeless(rOut.sources[i], rOut.roots)}

\* C11: when a source file lies under none of the import roots (an empty
\* list of roots included), the compilation fails and its error names such a
\* file; the file is neither left out of the compiler's input nor replaced
\* by its base name.
C11_EscapeRejected ==
    (CompilerReached /\ HomelessSources # {}) =>
        /\ rOut.err
        /\ \E i \in HomelessSources : rOut.named = rOut.sources[i]

\* C12: every source file that lies under some import root is handed to the
\* compiler as its path relative to the first such root in configured order,
\* and no name handed to the compiler escapes upward.
C12_HomeRootSelected ==
    CompilerReached =>
        /\ \A i \in 1..Len(rOut.sources) :
              ~Homeless(rOut.sources[i], rOut.roots) =>
                  \E k \in 1..Len(rOut.files) :
                      rOut.files[k] = HomePath(rOut.sources[i], rOut.roots)
        /\ \A k \in 1..Len(rOut.files) : ~EscapesUpward(rOut.files[k])

----------------------------------------------------------------------------
(* Properties of activation *)

\* The directory has a configuration that loads, and its patterns resolve,
\* without error, to no file at all.
EmptyResolution(projectPath) ==
    /\ projectPath # <<>>
    /\ ProjectExists(Abs(projectPath))
    /\ ~LoadProjectConfig(Abs(projectPath)).err
    /\ LET r == ResolveProtoFiles(LoadProjectConfig(Abs(projectPath)).config.ProtoFiles,
                                  Abs(projectPath), ServerDisk)
       IN ~r.err /\ r.files = <<>>

\* C13: when the patterns of the activated directory resolve to an empty set
\* of files, the compilation fails with "no proto files found in configured
\* paths" instead of running the compiler on nothing, activate_project
\* answers success=false, and the call makes no project current.
C13_NoFilesFound ==
    [][(lastOp' = "activate_project" /\ EmptyResolution(lastPath')) =>
        /\ ~lastResp'.isError
        /\ ~lastResp'.success
        /\ lastResp'.message.text = "Failed to compile proto files: %v"
        /\ lastResp'.message.err = "no proto files found in configured paths"
        /\ current' = current]_vars

\* A directory without proto files is activated while /a is current.
C13_Witness ==
    /\ lastOp = "activate_project"
    /\ EmptyResolution(lastPath)
    /\ ~lastResp.success
    /\ ~current.isNil
    /\ current.ProjectRoot = RootA

----------------------------------------------------------------------------
(* Properties of the results *)

\* C15: activating a directory without a project configuration file answers
\* success=false with the fixed text that asks for init; nothing of loading
\* the configuration, resolving the files or compiling shows in the answer,
\* and the call leaves the current project as it was.
C15_NotInitialized ==
    [][(/\ lastOp' = "activate_project"
        /\ lastPath' # <<>>
        /\ ~ConfigFile(Abs(lastPath')).exists) =>
        /\ ~lastResp'.isError
        /\ ~lastResp'.success
        /\ lastResp'.message =
              Msg("Project not initialized. Run 'go run cmd/protobuf-mcp/main.go init' first.")
        /\ lastResp'.body = NoBody
        /\ current' = current
        /\ succeeded' = succeeded]_vars

\* A directory without configuration was activated while /b is current.
C15_Witness ==
    /\ lastOp = "activate_project"
    /\ lastPath = RootNoConfig
    /\ ~lastResp.success
    /\ current.ProjectRoot = RootB
    /\ ~current.CompiledProtos.isNil

----------------------------------------------------------------------------
(* Properties of repeated runs *)

NoFilter(args) ==
    /\ args.message_types = Absent
    /\ args.service_types = Absent
    /\ args.enum_types = Absent
    /\ args.type = ""

\* The project a directory's activation builds when the compiler's tasks
\* finish in the given order.
ActivatedInOrder(root, order) ==
    LET p == Activated(root)
        importPaths == AbsImportPaths(p.Config.ImportPaths, p.ProjectRoot)
        found == [i \in 1..Len(p.protoFiles) |-> FindSource(p.protoFiles[i], importPaths)]
    IN [p EXCEPT !.CompiledProtos.File = Placed(Completed(p.protoFiles, found, order))]

----------------------------------------------------------------------------
(* Properties of a project that is not compiled *)

\* The query handler has answered from a project whose CompiledProtos it
\* found nil.
AnsweredNotCompiled ==
    /\ qry.pc = "done"
    /\ ~qry.view.isNil
    /\ qry.view.CompiledProtos.isNil

\* C17: a query on a current project whose compiled artifact is absent never
\* succeeds: list_services and get_schema answer success=false with the fixed
\* message "Project not compiled. Use activate_project first.", and
\* GetServices, GetMessages and GetEnums on that project return the error
\* "project not compiled yet, call CompileProtos first".
C17_NotCompiledNeverSucceeds ==
    AnsweredNotCompiled =>
        /\ ~qry.resp.isError
        /\ ~qry.resp.success
        /\ qry.resp.message = Msg("Project not compiled. Use activate_project first.")
        /\ qry.resp.body = NoBody
        /\ \A r \in {GetServices(qry.view), GetMessages(qry.view), GetEnums(qry.view)} :
              /\ r.err
              /\ r.list = <<>>
              /\ r.msg = "project not compiled yet, call CompileProtos first"

\* get_schema has read the pointer of a project whose CompiledProtos it does
\* not yet see, and has answered.
C17_Witness ==
    /\ AnsweredNotCompiled
    /\ qry.op = "get_schema"
    /\ qry.view.ProjectRoot = RootA
    /\ ~qry.resp.success

----------------------------------------------------------------------------
(* Properties of the activation summary *)

\* The sources of the files a directory's patterns resolve to, in order.
SourcesOf(root) ==
    LET files == ResolveProtoFiles(ConfigFile(root).config.ProtoFiles, root, ServerDisk).files
    IN [i \in 1..Len(files) |-> Source(files[i])]

\* The top-level services, messages and enums the files of a directory
\* declare, file by file.
ServicesIn(root) == Flatten([i \in 1..Len(SourcesOf(root)) |-> SourcesOf(root)[i].Service])
MessagesIn(root) == Flatten([i \in 1..Len(SourcesOf(root)) |-> SourcesOf(root)[i].MessageType])
EnumsIn(root) == Flatten([i \in 1..Len(SourcesOf(root)) |-> SourcesOf(root)[i].EnumType])

\* C18: a successful activate_project reports as many services, messages and
\* enums as the compiled files declare at top level, and a list_services that
\* follows returns exactly those services, Count equal to the activation's
\* services count, each with all its declared methods and their streaming
\* flags.
C18_SummaryAgreesWithQueries ==
    /\ (lastOp = "activate_project" /\ lastResp.success) =>
          /\ latest = Abs(lastPath)
          /\ lastResp.body.Services = Len(ServicesIn(latest))
          /\ lastResp.body.Messages = Len(MessagesIn(latest))
          /\ lastResp.body.Enums = Len(EnumsIn(latest))
    /\ (lastOp = "list_services" /\ latest # <<>>) =>
          /\ lastResp.success
          /\ lastResp.body.Count = ActivateHandle(latest, NoProject).resp.body.Services
          /\ lastResp.body.Count = Len(lastResp.body.Services)
          /\ Len(lastResp.body.Services) = Len(ServicesIn(latest))
          /\ \A i \in 1..Len(lastResp.body.Services) :
                /\ lastResp.body.Services[i].Name = ServicesIn(latest)[i].Name
                /\ lastResp.body.Services[i].Methods = ServicesIn(latest)[i].Method

\* /b was activated and list_services returned its two services, one with a
\* client-streaming method and one without methods.
C18_Witness ==
    /\ lastOp = "list_services"
    /\ latest = RootB
    /\ lastResp.success
    /\ lastResp.body.Count = 2
    /\ \E i \in 1..2 :
          /\ lastResp.body.Services[i].Name = "OrderService"
          /\ Len(lastResp.body.Services[i].Methods) = 1
          /\ lastResp.body.Services[i].Methods[1].ClientStreaming

----------------------------------------------------------------------------
(* Properties of initialisation *)

AlreadyInitialized ==
    {"project already initialized in %s",
     "Project already initialized. Configuration file already exists."}

----------------------------------------------------------------------------
(* Properties of recursive patterns *)

\* The directory a recursive pattern is based at: what precedes its first
\* "**", under the root when the pattern is relative.
RecursiveBase(pattern, root) ==
    LET before == TrimSuffix(SubSeq(pattern, 1, Index(pattern, StarStar)), Slash)
    IN IF IsAbs(pattern) THEN Clean(before) ELSE Join(root, before)

\* What follows the first "**" of a recursive pattern.
RecursiveSuffix(pattern) ==
    TrimPrefix(SubSeq(pattern, Index(pattern, StarStar) + 3, Len(pattern)), Slash)

\* The regular files at any depth under the base directory whose base file
\* name matches the suffix pattern.
RecursiveMatches(pattern, root, files) ==
    LET bs == Segs(RecursiveBase(pattern, root))
    IN {f \in files :
           /\ Len(Segs(f)) > Len(bs)
           /\ SubSeq(Segs(f), 1, Len(bs)) = bs
           /\ Match(RecursiveSuffix(pattern), Base(f)).matched}

AllRecursive(patterns) ==
    /\ patterns # <<>>
    /\ \A i \in 1..Len(patterns) : Contains(patterns[i], StarStar)

\* C20: the matches of a source pattern containing "**", relative to the root
\* or absolute, are exactly the regular files at any depth under its base
\* directory whose base file name matches its suffix pattern; no directory is
\* among them.
C20_RecursiveSemantics ==
    (/\ rOut.fn = "ResolveProtoFiles"
     /\ AllRecursive(rConfig.ProtoFiles)) =>
        /\ ~rOut.err
        /\ {rOut.files[k] : k \in 1..Len(rOut.files)} =
               UNION {RecursiveMatches(rConfig.ProtoFiles[i], ResolverRoot, rFiles) :
                          i \in 1..Len(rConfig.ProtoFiles)}

----------------------------------------------------------------------------
(* Properties of missing directories and malformed patterns *)

\* A recursive pattern whose base directory is not on the disk.
BaseMissing(pattern, root, files) ==
    /\ Contains(pattern, StarStar)
    /\ ~Exists(files, RecursiveBase(pattern, root))

Without(patterns, i) ==
    SubSeq(patterns, 1, i - 1) \o SubSeq(patterns, i + 1, Len(patterns))

\* The answer a call of ResolveProtoFiles on `patterns` is expected to give
\* when the pattern at i adds nothing and stops nothing: the answer for the
\* list without it.
AnswerWithout(patterns, i) ==
    LET r == ResolveProtoFiles(Without(patterns, i), ResolverRoot, rFiles)
    IN [fn |-> "ResolveProtoFiles", files |-> r.files, err |-> r.err]

C22_FailClosed ==
    (/\ rOut.fn = "ResolveProtoFiles"
     /\ \E i \in 1..Len(rConfig.ProtoFiles) : ~WellFormed(rConfig.ProtoFiles[i])) =>
        /\ rOut.err
        /\ rOut.files = <<>>

----------------------------------------------------------------------------
(* Properties of the two compiler helpers *)

IsGoogle(file) == HasPrefix(file, GooglePrefix)

Occurrences(s, x) == Cardinality({i \in 1..Len(s) : s[i] = x})

\* C23: the output of sortProtoFilesByDependencies is a permutation of its
\* input in which every path beginning with "google/" precedes every other
\* path, and inside each of the two groups the paths keep their input order.
C23_StablePartition ==
    rOut.fn = "sortProtoFilesByDependencies" =>
        LET in == rConfig.protoFiles
            out == rOut.files
        IN /\ Len(out) = Len(in)
           /\ \A x \in SortNameUniverse : Occurrences(out, x) = Occurrences(in, x)
           /\ \A i, j \in 1..Len(out) : (i < j /\ IsGoogle(out[j])) => IsGoogle(out[i])
           /\ SelectSeq(out, IsGoogle) = SelectSeq(in, IsGoogle)
           /\ SelectSeq(out, LAMBDA f : ~IsGoogle(f)) = SelectSeq(in, LAMBDA f : ~IsGoogle(f))

\* A list with another path in front of two different google/ paths was
\* sorted.
C23_Witness ==
    /\ rOut.fn = "sortProtoFilesByDependencies"
    /\ Len(rConfig.protoFiles) = 3
    /\ ~IsGoogle(rConfig.protoFiles[1])
    /\ IsGoogle(rConfig.protoFiles[2])
    /\ IsGoogle(rConfig.protoFiles[3])
    /\ rConfig.protoFiles[2] # rConfig.protoFiles[3]
    /\ rOut.files = <<rConfig.protoFiles[2], rConfig.protoFiles[3], rConfig.protoFiles[1]>>

\* The decimal digits of a positive number.
RECURSIVE Decimal(_)
Decimal(n) ==
    IF n < 10 THEN <<Digits[n + 1]>> ELSE Append(Decimal(n \div 10), Digits[(n % 10) + 1])

\* Every way of writing a positive number in at most MaxEnvLen characters: an
\* optional "+", any zeros, the digits; with the number written.
ShortSpellings ==
    {sp \in {[text |-> sign \o [i \in 1..z |-> "0"] \o Decimal(n), value |-> Decimal(n)] :
                 sign \in {<<>>, <<"+">>}, z \in 0..MaxEnvLen, n \in 1..(10 ^ MaxEnvLen - 1)} :
        Len(sp.text) <= MaxEnvLen}

\* The same for the long values of the variable.
LongSpellings ==
    {[text |-> MaxIntDigits, value |-> MaxIntDigits],
     [text |-> <<"0">> \o MaxIntDigits, value |-> MaxIntDigits]}

Spellings == ShortSpellings \cup LongSpellings

\* C24: the parallelism ceiling is a positive integer: the value of
\* PROTOBUF_MCP_MAX_PARALLELISM when the variable holds an int greater than
\* zero, and 4 when it is unset, empty, no number, zero or negative.
C24_PositiveCeiling ==
    rOut.fn = "getMaxParallelism" =>
        LET written == {sp \in Spellings : sp.text = rConfig.val}
            ceiling == rOut.MaxParallelism
        IN /\ ceiling # <<>>
           /\ \A i \in 1..Len(ceiling) : IsDigit(ceiling[i])
           /\ ceiling[1] # "0"
           /\ \A sp \in written : ceiling = sp.value
           /\ written = {} => ceiling = <<"4">>

\* The variable held "+07" and the ceiling is 7.
C24_Witness ==
    /\ rOut.fn = "getMaxParallelism"
    /\ rConfig.val = <<"+", "0", "7">>
    /\ rOut.MaxParallelism = <<"7">>

----------------------------------------------------------------------------
(* Properties of the order of a projection *)

\* Whether a can be had from b by leaving elements out.
RECURSIVE IsSubsequence(_, _)
IsSubsequence(a, b) ==
    IF a = <<>> THEN TRUE
    ELSE IF b = <<>> THEN FALSE
    ELSE IF Head(a) = Head(b) THEN IsSubsequence(Tail(a), Tail(b))
    ELSE IsSubsequence(a, Tail(b))

\* The declarations of one kind of an artifact: file after file, and inside
\* a file as declared.
RECURSIVE OneAfterAnother(_)
OneAfterAnother(lists) ==
    IF lists = <<>> THEN <<>> ELSE Head(lists) \o OneAfterAnother(Tail(lists))

InArtifactOrder(files, declared(_)) ==
    OneAfterAnother([i \in 1..Len(files) |-> declared(files[i])])

MessagesDeclared(file) ==
    [i \in 1..Len(file.MessageType) |-> convertMessageToInfo(file.MessageType[i], file)]

ServicesDeclared(file) ==
    [i \in 1..Len(file.Service) |-> convertServiceToInfo(file.Service[i], file)]

EnumsDeclared(file) ==
    [i \in 1..Len(file.EnumType) |-> convertEnumToInfo(file.EnumType[i], file)]

\* What get_schema emits for the current project with no filter.
Unfiltered == GetSchemaHandle(NoArgs, current).body.Schema

\* C25: get_schema emits messages, services and enums in the order of the
\* compiled files and, within a file, in declaration order: with no filter the
\* lists are the artifact's declarations in that order, and for every filter
\* each emitted list is a subsequence of the list emitted with no filter.
C25_ArtifactOrder ==
    (lastOp = "get_schema" /\ lastResp.success) =>
        LET files == current.CompiledProtos.File
            emitted == lastResp.body.Schema
        IN /\ Unfiltered.Messages = InArtifactOrder(files, MessagesDeclared)
           /\ Unfiltered.Services = InArtifactOrder(files, ServicesDeclared)
           /\ Unfiltered.Enums = InArtifactOrder(files, EnumsDeclared)
           /\ IsSubsequence(emitted.Messages, Unfiltered.Messages)
           /\ IsSubsequence(emitted.Services, Unfiltered.Services)
           /\ IsSubsequence(emitted.Enums, Unfiltered.Enums)

\* A filter naming two messages of different files, the later one first, was
\* answered with the two messages in the order of the files.
C25_Witness ==
    /\ lastOp = "get_schema"
    /\ lastResp.success
    /\ Len(current.CompiledProtos.File) = 2
    /\ getStringArray(lastArgs.message_types) = <<"UserProfile", "User">>
    /\ Len(lastResp.body.Schema.Messages) = 2
    /\ lastResp.body.Schema.Messages[1].Name = "User"
    /\ lastResp.body.Schema.Messages[2].Name = "UserProfile"

----------------------------------------------------------------------------
(* Properties of the persisted project state *)

\* C26: a project obtained from LoadProjectState has no compiled artifact,
\* whatever was saved, and every query on it fails.
C26_LoadedIsNotCompiled ==
    (psm.out.fn \in {"LoadProjectState", "query"} /\ ~psm.out.project.isNil) =>
        /\ psm.out.project.CompiledProtos.isNil
        /\ psm.out.fn = "query" =>
               /\ ~psm.out.resp.success
               /\ psm.out.resp.body = NoBody

\* The state of a compiled project was saved with its descriptors and loaded
\* again, and a query on the loaded project was refused.
C26_Witness ==
    /\ psm.file.exists
    /\ psm.file.CompiledProtos # <<>>
    /\ psm.file.CompiledProtos[1].json # <<>>
    /\ psm.out.fn = "query"
    /\ ~psm.out.project.isNil
    /\ psm.out.project.ProjectRoot = RootA
    /\ ~psm.out.resp.success

----------------------------------------------------------------------------
(* Properties of the stdio server *)

\* The responses written so far answer the requests decoded so far, one for
\* one and in their order, each with the id its request was sent with.
AnsweredInOrder(n) ==
    /\ Len(rpc.output) = n
    /\ \A i \in 1..n : rpc.output[i].ID = rpc.read[i].ID

\* C27: Run handles the requests one at a time in arrival order: when the next
\* value is about to be read, and when Run has returned, every decoded request
\* has exactly one response, carrying its id; while a request is handled only
\* its response is missing; and at the end of the input Run returns nil.
C27_OneAtATime ==
    /\ rpc.pc \in {"select", "returned"} => AnsweredInOrder(Len(rpc.read))
    /\ rpc.pc = "handle" => AnsweredInOrder(Len(rpc.read) - 1)
    /\ (rpc.pc = "returned" /\ rpc.why = "EOF") => (rpc.ret = "nil" /\ rpc.input = <<>>)

\* The same for requests whose id is a string, null or a number that is a
\* float64, on a standard output that takes what is written.
C27_OneAtATimeExactIDs ==
    (/\ rpc.stdout = "open"
     /\ \A i \in 1..Len(rpc.read) : rpc.read[i].ID # NumberID(InexactDigits)) =>
        C27_OneAtATime

----------------------------------------------------------------------------
(* Properties of a compilation that fails *)

MethodRuns == {"ProtobufProject.CompileProtos again", "CompileProtos of proto paths"}

----------------------------------------------------------------------------
(* Properties of queries *)

\* C29: a list_services or get_schema call leaves the current project, its
\* compiled artifact and the working directory of the process as they were,
\* and a query repeated right after itself gets the same response.
C29_QueriesReadOnly ==
    [][lastOp' \in Queries =>
          /\ current' = current
          /\ cwd' = cwd
          /\ (lastOp = lastOp' /\ lastArgs = lastArgs') => lastResp' = lastResp]_vars

----------------------------------------------------------------------------
(* Properties of the project that is current *)

\* C30: the project activate_project installs as current has a compiled
\* artifact when it is installed and for as long as it stays current, so no
\* sequence of activate_project, list_services and get_schema calls is ever
\* answered "Project not compiled" or meets the accessors' "not compiled yet"
\* error.
C30_CurrentIsCompiled ==
    /\ ~current.isNil => ~current.CompiledProtos.isNil
    /\ lastResp.message.text # ProjectNotCompiled
    /\ lastResp.message.err # NotCompiledErr

\* A query succeeds on a project that replaced an earlier one, after some
\* activation failed.
C30_Witness ==
    /\ lastOp \in Queries
    /\ lastResp.success
    /\ ~current.isNil
    /\ ~current.CompiledProtos.isNil
    /\ Cardinality(succeeded) >= 2
    /\ failed

====
